---- MODULE Spec2Model ----
(***************************************************************************)
(* Model of the Pianobar coordinator (custom_components/pianobar):        *)
(* the WebSocket connection lifecycle (connect, listen loop, reconnect    *)
(* loop with exponential backoff, disconnect), the event dispatcher and   *)
(* the state snapshot `data`, the decoding of raw frames, the command API  *)
(* and the response waiter, together with the host glue that drives it    *)
(* (config entry setup, the reconnect service, config entry unload).      *)
(*                                                                         *)
(* asyncio runs one coroutine at a time, so every action below is the     *)
(* code a coroutine runs between two awaits.                               *)
(***************************************************************************)
EXTENDS Integers, Sequences, FiniteSets, TLC

----------------------------------------------------------------------------
(* Program constants (const.py) *)

WS_RECONNECT_DELAY == 5

WS_MAX_RECONNECT_DELAY == 300

(* Bounds of the model *)

\* sockets (successful connects) in one behaviour, and consecutive failed
\* attempts of the reconnect loop, in the life cycle specification Spec
MaxConn == 3

MaxFails == 1

\* the same two bounds in the backoff specifications, which follow the
\* reconnect delay up to its ceiling
MaxBackoffConn == 2

MaxBackoffFails == 7

\* the same two bounds in the specification with fair scheduling
MaxLiveConn == 2

MaxLiveFails == 2

\* wall clock range of dt_util.utcnow()
MaxNow == 1

\* sockets and received frames in the specifications of raw inbound frames
\* and of the response waiter
MaxFrameConn == 1

MaxFrames == 2

\* sockets and commands in the specification of the command API
MaxCmdConn == 2

MaxCmd == 2

\* sockets and async_disconnect calls in the shutdown specification
MaxShutConn == 2

MaxDisc == 2

\* poll intervals of one wait_for_response before its timeout has elapsed,
\* and calls of the response waiter made by one caller
MaxPolls == 2

MaxCalls == 2

\* frames written to one socket in the specification of the wire codec
MaxWritten == 3

\* frames the daemon sends on one socket
MaxWire == 2

\* two service calls that use the response waiter at the same time
Waiters == {"a", "b"}

Conns == 1..MaxConn

\* Python's None, and the id used for "no socket / no task"
None == "None"

NoConn == 0

----------------------------------------------------------------------------
(* Python dict helpers: a dict is a function from its keys *)

Has(d, k) == k \in DOMAIN d

Get(d, k, default) == IF k \in DOMAIN d THEN d[k] ELSE default

Update(d, u) == [k \in (DOMAIN d) \cup (DOMAIN u) |-> IF k \in DOMAIN u THEN u[k] ELSE d[k]]

Pop(d, keys) == [k \in (DOMAIN d) \ keys |-> d[k]]

Min(a, b) == IF a < b THEN a ELSE b

\* wire_volume / 100.0 : the quotient as a fraction <<numerator, denominator>>
Div100(v) == <<v, 100>>

----------------------------------------------------------------------------
VARIABLES
  is_closing,       \* self._is_closing
  reconnect_delay,  \* self._reconnect_delay
  ws,               \* self._ws : NoConn or the socket
  session,          \* self._session : "none", "open", or "closing" (closed, being released)
  listen_task,      \* self._listen_task : NoConn or the task handle
  reconnect_task,   \* self._reconnect_task : NoConn or the task handle
  data,             \* self.data, the state snapshot
  sock,             \* per socket: "unused", "open", "closed" (ws.closed)
  sent,             \* per socket: number of frames written with send_str
  ltask,            \* per socket: the listen task started on it
  rtask,            \* per listen task: the reconnect task its exit started
  nconn,            \* sockets opened so far
  setup,            \* async_setup_entry: position of the call
  manual,           \* reconnect service call: position
  disc,             \* async_unload_entry / async_disconnect: position
  registered,       \* coordinator is in hass.data[DOMAIN]
  bcast,            \* parity of the number of async_set_updated_data calls
  now,              \* dt_util.utcnow()
  slept,            \* per reconnect task: duration of its current/last sleep
  fails,            \* failed reconnect-loop attempts since the last successful connect
  outage,           \* a connection was lost and no connect succeeded since
  response_data,    \* self._response_data, the pending-response table
  wait,             \* per caller: its wait_for_response / get_response_data call
  cmd,              \* how the send_event call of each command so far ended
  ncmd,             \* commands sent so far
  ndisc,            \* async_disconnect calls so far
  rx,               \* the raw frames received so far, as <<socket, frame>>
  qry,              \* per socket: how the send_event("query") of its connect ended
  req,              \* per caller: frames received before its request was sent
  taken,            \* the values returned to calls: caller, call, frame that stored it
  out,              \* the last call of the command API that wrote a frame, with the frame
  inb,              \* the last frame echoed by the daemon, and what the inbound path decoded
  last,             \* the last event the dispatcher was called with
  unload_ok,        \* what the calls of async_unload_entry returned, in order
  wire              \* per socket: the frames the daemon has sent on it, in order

cvars == <<is_closing, reconnect_delay, ws, session, listen_task, reconnect_task>>

tvars == <<sock, sent, ltask, rtask, nconn>>

hvars == <<setup, manual, disc, registered>>

gvars == <<slept, fails, outage>>

xvars == <<response_data, wait, cmd, ncmd, ndisc, rx, qry>>

yvars == <<req, taken>>

zvars == <<out, inb, last>>

vars == <<cvars, tvars, hvars, gvars, data, bcast, now, xvars, yvars, zvars, unload_ok, wire>>

----------------------------------------------------------------------------
(* The state snapshot and its handlers *)

InitData ==
  [playing |-> FALSE, paused |-> FALSE, volume |-> <<0, 1>>, maxGain |-> 10,
   station |-> "", stationId |-> "", stations |-> <<>>]

\* _handle_process_event with elapsed and the position timestamp taken
\* from every payload that carries elapsed
_handle_process_event_ElapsedAlone(d, payload) ==
  LET wire_volume == Get(payload, "volume", 0)
      d1 == Update(d, [playing |-> Get(payload, "playing", FALSE),
                       paused |-> Get(payload, "paused", FALSE),
                       volume |-> Div100(wire_volume),
                       maxGain |-> Get(payload, "maxGain", 10),
                       station |-> Get(payload, "station", ""),
                       stationId |-> Get(payload, "stationId", "")])
      d2 == IF Get(payload, "playing", FALSE) /\ Has(payload, "song")
              THEN Update(d1, [song |-> payload["song"]])
              ELSE d1
  IN IF Has(payload, "elapsed")
       THEN Update(d2, [elapsed |-> payload["elapsed"], position_updated_at |-> now])
       ELSE d2

_handle_process_event(d, payload) ==
  LET wire_volume == Get(payload, "volume", 0)
      d1 == Update(d, [playing |-> Get(payload, "playing", FALSE),
                       paused |-> Get(payload, "paused", FALSE),
                       volume |-> Div100(wire_volume),
                       maxGain |-> Get(payload, "maxGain", 10),
                       station |-> Get(payload, "station", ""),
                       stationId |-> Get(payload, "stationId", "")])
  IN IF Get(payload, "playing", FALSE) /\ Has(payload, "song")
       THEN LET d2 == Update(d1, [song |-> payload["song"]])
            IN IF Has(payload, "elapsed")
                 THEN Update(d2, [elapsed |-> payload["elapsed"],
                                  position_updated_at |-> now])
                 ELSE d2
       ELSE d1

\* _handle_start_event without the reset of paused
_handle_start_event_KeepsPaused(d, payload) ==
  Update(d, [playing |-> TRUE, song |-> payload, elapsed |-> 0,
             position_updated_at |-> now,
             station |-> Get(payload, "station", ""),
             stationId |-> Get(payload, "stationId", "")])

_handle_start_event(d, payload) ==
  Update(d, [playing |-> TRUE, paused |-> FALSE, song |-> payload, elapsed |-> 0,
             position_updated_at |-> now,
             station |-> Get(payload, "station", ""),
             stationId |-> Get(payload, "stationId", "")])

\* _handle_stop_event without the removal of elapsed
_handle_stop_event_KeepsElapsed(d) ==
  Pop(Update(d, [playing |-> FALSE]), {"song"})

\* _handle_stop_event without the removal of the song
_handle_stop_event_KeepsSong(d) ==
  Pop(Update(d, [playing |-> FALSE]), {"elapsed"})

_handle_stop_event(d) ==
  Pop(Update(d, [playing |-> FALSE]), {"song", "elapsed"})

\* _clear_playback_state with the volume reset as well
_clear_playback_state_ResetsVolume(d) ==
  Pop(Update(d, [playing |-> FALSE, paused |-> FALSE, volume |-> <<0, 1>>,
                 station |-> None, stationId |-> None]),
      {"song", "elapsed", "position_updated_at"})

_clear_playback_state(d) ==
  Pop(Update(d, [playing |-> FALSE, paused |-> FALSE,
                 station |-> None, stationId |-> None]),
      {"song", "elapsed", "position_updated_at"})

\* _handle_stopped_event doing what the stop event does
_handle_stopped_event_AsStop(d, payload) == _handle_stop_event(d)

_handle_stopped_event(d, payload) == _clear_playback_state(d)

\* _handle_progress_event without the test of playing
_handle_progress_event_Always(d, payload) ==
  Update(d, [elapsed |-> Get(payload, "elapsed", 0), position_updated_at |-> now])

_handle_progress_event(d, payload) ==
  IF Get(d, "playing", FALSE)
    THEN Update(d, [elapsed |-> Get(payload, "elapsed", 0),
                    position_updated_at |-> now])
    ELSE d

\* _handle_volume_event with a negative wire value taken as silence
_handle_volume_event_Clamped(d, payload) ==
  Update(d, [volume |-> Div100(IF payload < 0 THEN 0 ELSE payload)])

_handle_volume_event(d, payload) == Update(d, [volume |-> Div100(payload)])

_handle_play_state_event(d, payload) ==
  Update(d, [paused |-> Get(payload, "paused", FALSE)])

_handle_stations_event(d, payload) == Update(d, [stations |-> payload])

\* the if/elif chain with a last branch that resets the playback state on
\* a name it does not know
Dispatch_UnknownClears(d, ev) ==
  LET event_name == ev[1]
      event_payload == ev[2]
  IN CASE event_name = "process" -> _handle_process_event(d, event_payload)
       [] event_name = "start" -> _handle_start_event(d, event_payload)
       [] event_name = "stop" -> _handle_stop_event(d)
       [] event_name = "stopped" -> _handle_stopped_event(d, event_payload)
       [] event_name = "progress" -> _handle_progress_event(d, event_payload)
       [] event_name = "volume" -> _handle_volume_event(d, event_payload)
       [] event_name = "playState" -> _handle_play_state_event(d, event_payload)
       [] event_name = "stations" -> _handle_stations_event(d, event_payload)
       [] OTHER -> _clear_playback_state(d)

\* the if/elif chain of _handle_message on a decoded event <<name, payload>>
Dispatch(d, ev) ==
  LET event_name == ev[1]
      event_payload == ev[2]
  IN CASE event_name = "process" -> _handle_process_event(d, event_payload)
       [] event_name = "start" -> _handle_start_event(d, event_payload)
       [] event_name = "stop" -> _handle_stop_event(d)
       [] event_name = "stopped" -> _handle_stopped_event(d, event_payload)
       [] event_name = "progress" -> _handle_progress_event(d, event_payload)
       [] event_name = "volume" -> _handle_volume_event(d, event_payload)
       [] event_name = "playState" -> _handle_play_state_event(d, event_payload)
       [] event_name = "stations" -> _handle_stations_event(d, event_payload)
       [] OTHER -> d

\* reply events and the key of the pending-response table each is stored
\* under; the explanation event is named song.explanation on the wire
ResponseKey ==
  [e \in {"song.explanation", "query.upcoming.result", "stationInfo",
          "stationModes", "searchResults", "genres"} |->
     CASE e = "song.explanation" -> "song_explanation"
       [] e = "query.upcoming.result" -> "upcoming"
       [] e = "stationInfo" -> "station_info"
       [] e = "stationModes" -> "station_modes"
       [] e = "searchResults" -> "search_results"
       [] e = "genres" -> "genres"]

\* ResponseValue with the payload stored whole for every reply event
ResponseValue_Whole(ev) == ev[2]

\* what is stored for a reply event: the text of an explanation, the list
\* of station modes, and the payload itself for the other events
ResponseValue(ev) ==
  CASE ev[1] = "song.explanation" -> ev[2]["explanation"]
    [] ev[1] = "stationModes" -> ev[2]["modes"]
    [] OTHER -> ev[2]

\* the reply branches of the dispatcher: the value is stored under the
\* mapped key, the last reply wins
DispatchResponse(rd, ev) ==
  IF ev[1] \in DOMAIN ResponseKey
    THEN Update(rd, ResponseKey[ev[1]] :> ResponseValue(ev))
    ELSE rd

----------------------------------------------------------------------------
(* Raw frames.  A frame is its sequence of lexical tokens: the leading     *)
(* character, then the tokens of the JSON text: brackets, commas, and      *)
(* atoms (a complete JSON value that is not taken apart any further).      *)

Ch(c) == [k |-> "ch", v |-> c]

LB == [k |-> "[", v |-> None]

RB == [k |-> "]", v |-> None]

CM == [k |-> ",", v |-> None]

Atom(x) == [k |-> "atom", v |-> x]

\* an atom with its JSON type written out: "object", "number", "string",
\* "array", "null"; an atom written without one has the type the handler
\* of its event expects
AtomOf(ty, x) == [k |-> "atom", v |-> x, ty |-> ty]

TypeOf(tok) == IF "ty" \in DOMAIN tok THEN tok.ty ELSE "expected"

\* message.startswith(c)
startswith(message, c) ==
  /\ Len(message) >= 1
  /\ message[1].k = "ch"
  /\ message[1].v = c

\* the text between the brackets of an array: values separated by commas
WellFormedItems(inner) ==
  \/ Len(inner) = 0
  \/ /\ Len(inner) % 2 = 1
     /\ \A j \in 1..Len(inner) :
          IF j % 2 = 1 THEN inner[j].k = "atom" ELSE inner[j].k = ","

\* json.loads: ok is false where it raises JSONDecodeError; otherwise v is
\* the value, a list (the sequence of its elements) or something else
json_loads(toks) ==
  IF Len(toks) = 1 /\ toks[1].k = "atom"
    THEN [ok |-> TRUE, list |-> FALSE, v |-> <<toks[1].v>>,
          ty |-> <<TypeOf(toks[1])>>]
    ELSE IF /\ Len(toks) >= 2
            /\ toks[1].k = "[" /\ toks[Len(toks)].k = "]"
            /\ WellFormedItems(SubSeq(toks, 2, Len(toks) - 1))
           THEN [ok |-> TRUE, list |-> TRUE,
                 v |-> [j \in 1..((Len(toks) - 1) \div 2) |-> toks[2 * j].v],
                 ty |-> [j \in 1..((Len(toks) - 1) \div 2) |-> TypeOf(toks[2 * j])]]
           ELSE [ok |-> FALSE, list |-> FALSE, v |-> <<>>, ty |-> <<>>]

\* what one call of _handle_message leaves: the snapshot, the table,
\* whether the update was broadcast, whether an exception left the call
Handled(d, rd, updated, raised) ==
  [data |-> d, response_data |-> rd, updated |-> updated, raised |-> raised]

\* the handler of the event raises on a payload of this type, before it
\* has assigned anything: payload.get of a value that is no mapping
\* (AttributeError; the progress handler reaches it only while playing),
\* payload / 100.0 of a value that is no number (TypeError).  The values
\* stored are computed before the update or the assignment they go into.
HandlerRaises(d, event_name, ty) ==
  CASE event_name \in {"process", "start", "playState"} ->
         ty \notin {"expected", "object"}
    [] event_name = "progress" ->
         Get(d, "playing", FALSE) /\ ty \notin {"expected", "object"}
    [] event_name = "volume" -> ty \notin {"expected", "number"}
    [] OTHER -> FALSE

\* the handlers and the broadcast, without the except clause for what a
\* handler raises: the exception leaves _handle_message
HandleEvent_NoCatch(d, rd, ev, ty) ==
  IF HandlerRaises(d, ev[1], ty)
    THEN Handled(d, rd, FALSE, TRUE)
    ELSE Handled(Dispatch(d, ev), DispatchResponse(rd, ev), TRUE, FALSE)

\* the handlers without the call of async_set_updated_data after them
HandleEvent_NoBroadcast(d, rd, ev, ty) ==
  IF HandlerRaises(d, ev[1], ty)
    THEN Handled(d, rd, FALSE, FALSE)
    ELSE Handled(Dispatch(d, ev), DispatchResponse(rd, ev), FALSE, FALSE)

\* lines 182-206: the handler of the event, then the broadcast; an
\* exception of the handler is caught and logged by `except Exception`
HandleEvent(d, rd, ev, ty) ==
  IF HandlerRaises(d, ev[1], ty)
    THEN Handled(d, rd, FALSE, FALSE)
    ELSE Handled(Dispatch(d, ev), DispatchResponse(rd, ev), TRUE, FALSE)

\* _handle_message without the test of the packet type
_handle_message_NoMarker(d, rd, message) ==
  IF Len(message) = 0
    THEN Handled(d, rd, FALSE, FALSE)
    ELSE LET event_data == json_loads(Tail(message))
         IN IF ~event_data.ok
              THEN Handled(d, rd, FALSE, FALSE)
              ELSE IF ~event_data.list \/ Len(event_data.v) < 2
                     THEN Handled(d, rd, FALSE, FALSE)
                     ELSE HandleEvent(d, rd, <<event_data.v[1], event_data.v[2]>>,
                                      event_data.ty[2])

\* _handle_message without the except clauses: JSONDecodeError leaves it
_handle_message_NoCatch(d, rd, message) ==
  IF ~startswith(message, "2")
    THEN Handled(d, rd, FALSE, FALSE)
    ELSE LET event_data == json_loads(Tail(message))
         IN IF ~event_data.ok
              THEN Handled(d, rd, FALSE, TRUE)
              ELSE IF ~event_data.list \/ Len(event_data.v) < 2
                     THEN Handled(d, rd, FALSE, FALSE)
                     ELSE HandleEvent_NoCatch(d, rd, <<event_data.v[1], event_data.v[2]>>,
                                              event_data.ty[2])

\* _handle_message on a raw frame
_handle_message(d, rd, message) ==
  IF ~startswith(message, "2")
    THEN Handled(d, rd, FALSE, FALSE)
    ELSE LET event_data == json_loads(Tail(message))
         IN IF ~event_data.ok
              THEN Handled(d, rd, FALSE, FALSE)
              ELSE IF ~event_data.list \/ Len(event_data.v) < 2
                     THEN Handled(d, rd, FALSE, FALSE)
                     ELSE HandleEvent(d, rd, <<event_data.v[1], event_data.v[2]>>,
                                      event_data.ty[2])

----------------------------------------------------------------------------
(* The text of a frame, character by character.  A text is a sequence of   *)
(* symbols: a symbol is one character, or the whole lexeme of a JSON        *)
(* literal (null, true, a number).  A JSON value is a tagged record: a      *)
(* literal with its lexeme, a string with its characters, an array with     *)
(* its elements, an object with its <<key, value>> pairs in order.          *)

QUOTE == "\""

BACKSLASH == "\\"

NEWLINE == "\n"

Lit(x) == [t |-> "lit", v |-> x]

JStr(cs) == [t |-> "str", v |-> cs]

JList(q) == [t |-> "list", v |-> q]

JObj(q) == [t |-> "obj", v |-> q]

\* the lexemes of the literals in use
Literals == {"null", "true", "false", "0", "5", "50", "-5", "-10"}

RECURSIVE Escape(_)

\* the body of a string as json.dumps writes it: the quote, the backslash
\* and the control characters are escaped
Escape(cs) ==
  IF cs = <<>> THEN <<>>
  ELSE (CASE Head(cs) = QUOTE -> <<BACKSLASH, QUOTE>>
          [] Head(cs) = BACKSLASH -> <<BACKSLASH, BACKSLASH>>
          [] Head(cs) = NEWLINE -> <<BACKSLASH, "n">>
          [] OTHER -> <<Head(cs)>>) \o Escape(Tail(cs))

RECURSIVE json_dumps(_)

RECURSIVE DumpItems(_)

RECURSIVE DumpPairs(_)

\* the elements of an array, separated by ", "
DumpItems(q) ==
  IF q = <<>> THEN <<>>
  ELSE json_dumps(Head(q))
         \o (IF Tail(q) = <<>> THEN <<>> ELSE <<",", " ">> \o DumpItems(Tail(q)))

\* the members of an object: "key": value, separated by ", "
DumpPairs(q) ==
  IF q = <<>> THEN <<>>
  ELSE <<QUOTE>> \o Escape(Head(q)[1]) \o <<QUOTE, ":", " ">> \o json_dumps(Head(q)[2])
         \o (IF Tail(q) = <<>> THEN <<>> ELSE <<",", " ">> \o DumpPairs(Tail(q)))

\* json.dumps(value) with its default separators
json_dumps(x) ==
  CASE x.t = "lit" -> <<x.v>>
    [] x.t = "str" -> <<QUOTE>> \o Escape(x.v) \o <<QUOTE>>
    [] x.t = "list" -> <<"[">> \o DumpItems(x.v) \o <<"]">>
    [] x.t = "obj" -> <<"{">> \o DumpPairs(x.v) \o <<"}">>

\* the message send_event writes: f'2["{event_name}",{json.dumps(payload)}]'
Encode(event_name, payload) ==
  <<"2", "[", QUOTE>> \o event_name \o <<QUOTE, ",">> \o json_dumps(payload) \o <<"]">>

\* the result of a parse: failed, or the value with the position after it
Failed == [ok |-> FALSE, v |-> Lit("null"), i |-> 0]

Parsed(x, i) == [ok |-> TRUE, v |-> x, i |-> i]

RECURSIVE SkipSpace(_, _)

SkipSpace(s, i) == IF i <= Len(s) /\ s[i] = " " THEN SkipSpace(s, i + 1) ELSE i

RECURSIVE ParseString(_, _, _)

\* the characters of a string from position i, after its opening quote
ParseString(s, i, acc) ==
  IF i > Len(s) THEN Failed
  ELSE CASE s[i] = QUOTE -> Parsed(acc, i + 1)
         [] s[i] = NEWLINE -> Failed
         [] s[i] = BACKSLASH ->
              IF i + 1 > Len(s) THEN Failed
              ELSE CASE s[i + 1] = QUOTE -> ParseString(s, i + 2, Append(acc, QUOTE))
                     [] s[i + 1] = BACKSLASH -> ParseString(s, i + 2, Append(acc, BACKSLASH))
                     [] s[i + 1] = "n" -> ParseString(s, i + 2, Append(acc, NEWLINE))
                     [] OTHER -> Failed
         [] OTHER -> ParseString(s, i + 1, Append(acc, s[i]))

RECURSIVE ParseValue(_, _)

RECURSIVE ParseItems(_, _, _)

RECURSIVE ParsePairs(_, _, _)

\* the elements of an array from position i, where an element must start
ParseItems(s, i, acc) ==
  LET r == ParseValue(s, SkipSpace(s, i))
      j == SkipSpace(s, r.i)
  IN IF ~r.ok \/ j > Len(s) THEN Failed
     ELSE CASE s[j] = "," -> ParseItems(s, j + 1, Append(acc, r.v))
            [] s[j] = "]" -> Parsed(JList(Append(acc, r.v)), j + 1)
            [] OTHER -> Failed

\* the members of an object from position i, where a key must start
ParsePairs(s, i, acc) ==
  LET k == SkipSpace(s, i)
  IN IF k > Len(s) \/ s[k] # QUOTE THEN Failed
     ELSE LET key == ParseString(s, k + 1, <<>>)
              c == SkipSpace(s, key.i)
          IN IF ~key.ok \/ c > Len(s) \/ s[c] # ":" THEN Failed
             ELSE LET r == ParseValue(s, SkipSpace(s, c + 1))
                      j == SkipSpace(s, r.i)
                  IN IF ~r.ok \/ j > Len(s) THEN Failed
                     ELSE CASE s[j] = "," ->
                                 ParsePairs(s, j + 1, Append(acc, <<key.v, r.v>>))
                            [] s[j] = "}" ->
                                 Parsed(JObj(Append(acc, <<key.v, r.v>>)), j + 1)
                            [] OTHER -> Failed

\* one JSON value from position i
ParseValue(s, i) ==
  IF i > Len(s) THEN Failed
  ELSE CASE s[i] \in Literals -> Parsed(Lit(s[i]), i + 1)
         [] s[i] = QUOTE ->
              LET r == ParseString(s, i + 1, <<>>)
              IN IF r.ok THEN Parsed(JStr(r.v), r.i) ELSE Failed
         [] s[i] = "[" ->
              LET j == SkipSpace(s, i + 1)
              IN IF j <= Len(s) /\ s[j] = "]"
                   THEN Parsed(JList(<<>>), j + 1)
                   ELSE ParseItems(s, j, <<>>)
         [] s[i] = "{" ->
              LET j == SkipSpace(s, i + 1)
              IN IF j <= Len(s) /\ s[j] = "}"
                   THEN Parsed(JObj(<<>>), j + 1)
                   ELSE ParsePairs(s, j, <<>>)
         [] OTHER -> Failed

\* json.loads(text): one value and nothing but white space after it; ok is
\* false where it raises JSONDecodeError
json_decode(s) ==
  LET r == ParseValue(s, SkipSpace(s, 1))
  IN IF r.ok /\ SkipSpace(s, r.i) = Len(s) + 1 THEN r ELSE Failed

\* no frame was written yet
NoCall == [call |-> "none", args |-> <<>>, frame |-> <<>>]

\* what the inbound path makes of a message up to the dispatch: the event
\* name and the payload, or nothing
NoEvent == [ok |-> FALSE, name |-> JStr(<<>>), payload |-> Lit("null")]

Decode(message) ==
  IF Len(message) = 0 \/ message[1] # "2"
    THEN NoEvent
    ELSE LET event_data == json_decode(Tail(message))
         IN IF ~event_data.ok THEN NoEvent
            ELSE IF event_data.v.t # "list" \/ Len(event_data.v.v) < 2
                   THEN NoEvent
                   ELSE [ok |-> TRUE, name |-> event_data.v.v[1],
                         payload |-> event_data.v.v[2]]

----------------------------------------------------------------------------
(* Initial state: PianobarCoordinator.__init__, before async_setup_entry    *)
(* calls async_connect                                                      *)

Init ==
  /\ is_closing = FALSE
  /\ reconnect_delay = WS_RECONNECT_DELAY
  /\ ws = NoConn
  /\ session = "none"
  /\ listen_task = NoConn
  /\ reconnect_task = NoConn
  /\ data = InitData
  /\ sock = [i \in Conns |-> "unused"]
  /\ sent = [i \in Conns |-> 0]
  /\ ltask = [i \in Conns |-> "none"]
  /\ rtask = [i \in Conns |-> "none"]
  /\ nconn = 0
  /\ setup = "init"
  /\ manual = "idle"
  /\ disc = "idle"
  /\ registered = FALSE
  /\ bcast = 0
  /\ now = 0
  /\ slept = [i \in Conns |-> 0]
  /\ fails = 0
  /\ outage = FALSE
  /\ response_data = [k \in {} |-> None]
  /\ wait = [w \in Waiters |->
               [pc |-> "idle", op |-> None, key |-> None, left |-> 0,
                result |-> None, n |-> 0]]
  /\ cmd = <<>>
  /\ ncmd = 0
  /\ ndisc = 0
  /\ rx = <<>>
  /\ qry = [i \in Conns |-> "none"]
  /\ req = [w \in Waiters |-> 0]
  /\ taken = <<>>
  /\ out = NoCall
  /\ inb = [from |-> NoCall, result |-> NoEvent]
  /\ last = <<None, None, 0>>
  /\ unload_ok = <<>>
  /\ wire = [i \in Conns |-> <<>>]

----------------------------------------------------------------------------
(* async_connect, in three pieces: up to the await of ws_connect, from a   *)
(* successful ws_connect up to the await of send_str inside send_event,    *)
(* and the return after it                                                  *)

\* lines 56-70: create the session when there is none, start ws_connect
StartConnect == session' = IF session = "none" THEN "open" ELSE session

\* where the caller of async_connect stands once ws_connect is started: on
\* a session that is already closed the attempt can only fail
Attempt == IF session = "closing" THEN "doomed" ELSE "connecting"

\* send_event: nothing is written when there is no open socket; a failed
\* write (written = FALSE) is logged and swallowed
send_event(w, sk, st, written) ==
  IF w = NoConn \/ sk[w] # "open"
    THEN st
    ELSE [st EXCEPT ![w] = IF written THEN @ + 1 ELSE @]

\* send_event_outcome with the exception of a failed write passed on
send_event_outcome_Raises(w, sk, written) ==
  IF w = NoConn \/ sk[w] # "open"
    THEN "not_connected"
    ELSE IF written THEN "sent" ELSE "raised"

\* how a call of send_event ends: the error "WebSocket not connected" is
\* logged, the frame is written, or the error of the write is logged
send_event_outcome(w, sk, written) ==
  IF w = NoConn \/ sk[w] # "open"
    THEN "not_connected"
    ELSE IF written THEN "sent" ELSE "error_logged"

\* ConnectOk without the initial query
ConnectOk_NoQuery(written, maxc) ==
  LET n == nconn + 1
  IN /\ nconn < maxc
     /\ nconn' = n
     /\ sock' = [sock EXCEPT ![n] = "open"]
     /\ ws' = n
     /\ reconnect_delay' = WS_RECONNECT_DELAY
     /\ ltask' = [ltask EXCEPT ![n] = "running"]
     /\ listen_task' = n
     /\ sent' = sent
     /\ qry' = qry
     /\ fails' = 0
     /\ outage' = FALSE

\* lines 63-80: the socket is stored, the delay reset, the listen task
\* started, the query frame handed to send_str
ConnectOk(written, maxc) ==
  LET n == nconn + 1
  IN /\ nconn < maxc
     /\ nconn' = n
     /\ sock' = [sock EXCEPT ![n] = "open"]
     /\ ws' = n
     /\ reconnect_delay' = WS_RECONNECT_DELAY
     /\ ltask' = [ltask EXCEPT ![n] = "running"]
     /\ listen_task' = n
     /\ sent' = send_event(ws', sock', sent, written)
     /\ qry' = [qry EXCEPT ![n] = send_event_outcome(ws', sock', written)]
     /\ fails' = 0
     /\ outage' = FALSE

\* the coordinator's notion of "connected" (read by the reconnect service)
is_connected == ws # NoConn /\ sock[ws] = "open"

----------------------------------------------------------------------------
(* async_setup_entry (__init__.py) *)

SetupStart ==
  /\ setup = "init"
  /\ setup' = "connecting"
  /\ StartConnect
  /\ UNCHANGED <<is_closing, reconnect_delay, ws, listen_task, reconnect_task,
                 tvars, manual, disc, registered, gvars, data, bcast, now, xvars, yvars, zvars, unload_ok, wire>>

SetupConnected(written, maxc) ==
  /\ setup = "connecting"
  /\ ConnectOk(written, maxc)
  /\ setup' = "sending"
  /\ UNCHANGED <<is_closing, session, reconnect_task, rtask,
                 manual, disc, registered, slept, data, bcast, now,
                 response_data, wait, cmd, ncmd, ndisc, rx, yvars, zvars, unload_ok, wire>>

\* SetupConnectFailed with the failure of the first connect handled like a
\* loss: a reconnect loop is started
SetupConnectFailed_Retries ==
  /\ setup = "connecting"
  /\ setup' = "failed"
  /\ rtask' = [rtask EXCEPT ![1] = "created"]
  /\ reconnect_task' = 1
  /\ UNCHANGED <<is_closing, reconnect_delay, ws, session, listen_task,
                 sock, sent, ltask, nconn, manual, disc, registered, gvars,
                 data, bcast, now, xvars, yvars, zvars, unload_ok, wire>>

\* ws_connect timed out or was rejected: ConnectionError, ConfigEntryNotReady
SetupConnectFailed ==
  /\ setup = "connecting"
  /\ setup' = "failed"
  /\ UNCHANGED <<cvars, tvars, manual, disc, registered, gvars, data, bcast, now, xvars, yvars, zvars, unload_ok, wire>>

\* send_str is over, async_connect returns, the coordinator is registered
SetupReturn ==
  /\ setup = "sending"
  /\ setup' = "ready"
  /\ registered' = TRUE
  /\ UNCHANGED <<cvars, tvars, manual, disc, gvars, data, bcast, now, xvars, yvars, zvars, unload_ok, wire>>

----------------------------------------------------------------------------
(* the reconnect service (__init__.py, async_reconnect) *)

ManualStart ==
  /\ registered
  /\ manual = "idle"
  /\ ~is_connected
  /\ manual' = Attempt
  /\ StartConnect
  /\ UNCHANGED <<is_closing, reconnect_delay, ws, listen_task, reconnect_task,
                 tvars, setup, disc, registered, gvars, data, bcast, now, xvars, yvars, zvars, unload_ok, wire>>

ManualConnected(written, maxc) ==
  /\ manual = "connecting"
  /\ ConnectOk(written, maxc)
  /\ manual' = "sending"
  /\ UNCHANGED <<is_closing, session, reconnect_task, rtask,
                 setup, disc, registered, slept, data, bcast, now,
                 response_data, wait, cmd, ncmd, ndisc, rx, yvars, zvars, unload_ok, wire>>

\* the error is logged by the service, nothing else happens
ManualConnectFailed ==
  /\ manual \in {"connecting", "doomed"}
  /\ manual' = "idle"
  /\ UNCHANGED <<cvars, tvars, setup, disc, registered, gvars, data, bcast, now, xvars, yvars, zvars, unload_ok, wire>>

ManualReturn ==
  /\ manual = "sending"
  /\ manual' = "idle"
  /\ UNCHANGED <<cvars, tvars, setup, disc, registered, gvars, data, bcast, now, xvars, yvars, zvars, unload_ok, wire>>

----------------------------------------------------------------------------
(* _listen: the task started on socket i *)

\* one TEXT message that is a well-formed event frame: _handle_message
\* dispatches it and broadcasts
ListenFrame(i, ev) ==
  /\ ltask[i] = "running"
  /\ sock[i] = "open"
  /\ data' = Dispatch(data, ev)
  /\ response_data' = DispatchResponse(response_data, ev)
  /\ bcast' = 1 - bcast
  /\ UNCHANGED <<cvars, tvars, hvars, gvars, now, wait, cmd, ncmd, ndisc, rx, qry, yvars, zvars, unload_ok, wire>>

\* ListenFrame with the event recorded as the last one dispatched; the
\* third component of the record alternates, so that every dispatch
\* changes it
ListenEvent(i, ev) ==
  /\ ltask[i] = "running"
  /\ sock[i] = "open"
  /\ data' = Dispatch(data, ev)
  /\ response_data' = DispatchResponse(response_data, ev)
  /\ bcast' = 1 - bcast
  /\ last' = <<ev[1], ev[2], IF last[1] = None THEN 0 ELSE 1 - last[3]>>
  /\ UNCHANGED <<cvars, tvars, hvars, gvars, now, wait, cmd, ncmd, ndisc, rx, qry,
                 yvars, out, inb, unload_ok, wire>>

\* one TEXT message, as the raw frame number m of a list of frames: what
\* _handle_message leaves is applied; an exception that left it would end
\* the loop through the except clause of _listen and run its finally block
ListenMessage(i, frames, m) ==
  /\ ltask[i] = "running"
  /\ sock[i] = "open"
  /\ Len(rx) < MaxFrames
  /\ rx' = Append(rx, <<i, m>>)
  /\ LET r == _handle_message(data, response_data, frames[m])
     IN IF r.raised
          THEN /\ ltask' = [ltask EXCEPT ![i] = "done"]
               /\ response_data' = r.response_data
               /\ IF ~is_closing
                    THEN /\ data' = _clear_playback_state(r.data)
                         /\ bcast' = 1 - bcast
                         /\ rtask' = [rtask EXCEPT ![i] = "created"]
                         /\ reconnect_task' = i
                         /\ outage' = TRUE
                    ELSE /\ data' = r.data
                         /\ UNCHANGED <<bcast, rtask, reconnect_task, outage>>
          ELSE /\ data' = r.data
               /\ response_data' = r.response_data
               /\ bcast' = IF r.updated THEN 1 - bcast ELSE bcast
               /\ UNCHANGED <<ltask, rtask, reconnect_task, outage>>
  /\ UNCHANGED <<is_closing, reconnect_delay, ws, session, listen_task,
                 sock, sent, nconn, hvars, slept, fails, now,
                 wait, cmd, ncmd, ndisc, qry, yvars, zvars, unload_ok, wire>>

\* why the loop ends: a CLOSED/CLOSING message, an ERROR message, an
\* exception raised by the transport, the end of the iteration
ExitCauses == {"closed", "error", "exception", "eof"}

\* ListenExit with the clean-up after the try block instead of in a
\* finally block: an exception raised by the transport skips it
ListenExit_NoFinally(i, cause) ==
  /\ ltask[i] = "running"
  /\ ltask' = [ltask EXCEPT ![i] = "done"]
  /\ sock' = [sock EXCEPT ![i] = "closed"]
  /\ IF ~is_closing /\ cause # "exception"
       THEN /\ data' = _clear_playback_state(data)
            /\ bcast' = 1 - bcast
            /\ rtask' = [rtask EXCEPT ![i] = "created"]
            /\ reconnect_task' = i
            /\ outage' = TRUE
       ELSE UNCHANGED <<data, bcast, rtask, reconnect_task, outage>>
  /\ UNCHANGED <<is_closing, reconnect_delay, ws, session, listen_task,
                 sent, nconn, hvars, slept, fails, now, xvars, yvars, zvars, unload_ok, wire>>

\* the loop ends and the finally block runs, the same for every cause;
\* aiohttp has marked the socket closed by then
ListenExit(i, cause) ==
  /\ ltask[i] = "running"
  /\ ltask' = [ltask EXCEPT ![i] = "done"]
  /\ sock' = [sock EXCEPT ![i] = "closed"]
  /\ IF ~is_closing
       THEN /\ data' = _clear_playback_state(data)
            /\ bcast' = 1 - bcast
            /\ rtask' = [rtask EXCEPT ![i] = "created"]
            /\ reconnect_task' = i
            /\ outage' = TRUE
       ELSE UNCHANGED <<data, bcast, rtask, reconnect_task, outage>>
  /\ UNCHANGED <<is_closing, reconnect_delay, ws, session, listen_task,
                 sent, nconn, hvars, slept, fails, now, xvars, yvars, zvars, unload_ok, wire>>

----------------------------------------------------------------------------
(* _reconnect: the task started by the exit of listen task i *)

\* the loop condition, then the start of asyncio.sleep(self._reconnect_delay)
LoopTop(i, rt, sl, delay) ==
  IF is_closing
    THEN /\ rtask' = [rt EXCEPT ![i] = "done"]
         /\ slept' = sl
    ELSE /\ rtask' = [rt EXCEPT ![i] = "sleeping"]
         /\ slept' = [sl EXCEPT ![i] = delay]

ReconnectLoop(i) ==
  /\ rtask[i] = "created"
  /\ LoopTop(i, rtask, slept, reconnect_delay)
  /\ UNCHANGED <<cvars, sock, sent, ltask, nconn, hvars, fails, outage, data, bcast, now, xvars, yvars, zvars, unload_ok, wire>>

\* the sleep is over: async_connect is called
ReconnectWake(i) ==
  /\ rtask[i] = "sleeping"
  /\ rtask' = [rtask EXCEPT ![i] = Attempt]
  /\ StartConnect
  /\ UNCHANGED <<is_closing, reconnect_delay, ws, listen_task, reconnect_task,
                 sock, sent, ltask, nconn, hvars, gvars, data, bcast, now, xvars, yvars, zvars, unload_ok, wire>>

ReconnectConnected(i, written, maxc) ==
  /\ rtask[i] = "connecting"
  /\ ConnectOk(written, maxc)
  /\ rtask' = [rtask EXCEPT ![i] = "sending"]
  /\ UNCHANGED <<is_closing, session, reconnect_task, hvars, slept, data, bcast, now,
                 response_data, wait, cmd, ncmd, ndisc, rx, yvars, zvars, unload_ok, wire>>

\* ReconnectFailed without the ceiling: the delay is only doubled
ReconnectFailed_NoCeiling(i, maxf) ==
  /\ rtask[i] \in {"connecting", "doomed"}
  /\ fails < maxf
  /\ fails' = fails + 1
  /\ reconnect_delay' = reconnect_delay * 2
  /\ LoopTop(i, rtask, slept, reconnect_delay')
  /\ UNCHANGED <<is_closing, ws, session, listen_task, reconnect_task,
                 sock, sent, ltask, nconn, hvars, outage, data, bcast, now, xvars, yvars, zvars, unload_ok, wire>>

\* ReconnectFailed without the try/except: the error ends the task
ReconnectFailed_Raises(i, maxf) ==
  /\ rtask[i] \in {"connecting", "doomed"}
  /\ fails < maxf
  /\ fails' = fails + 1
  /\ rtask' = [rtask EXCEPT ![i] = "done"]
  /\ UNCHANGED <<cvars, sock, sent, ltask, nconn, hvars, slept, outage, data, bcast, now, xvars, yvars, zvars, unload_ok, wire>>

\* async_connect raised: the delay is doubled up to the ceiling, next iteration
ReconnectFailed(i, maxf) ==
  /\ rtask[i] \in {"connecting", "doomed"}
  /\ fails < maxf
  /\ fails' = fails + 1
  /\ reconnect_delay' = Min(reconnect_delay * 2, WS_MAX_RECONNECT_DELAY)
  /\ LoopTop(i, rtask, slept, reconnect_delay')
  /\ UNCHANGED <<is_closing, ws, session, listen_task, reconnect_task,
                 sock, sent, ltask, nconn, hvars, outage, data, bcast, now, xvars, yvars, zvars, unload_ok, wire>>

\* send_str is over, async_connect returns, the loop returns
ReconnectReturn(i) ==
  /\ rtask[i] = "sending"
  /\ rtask' = [rtask EXCEPT ![i] = "done"]
  /\ UNCHANGED <<cvars, sock, sent, ltask, nconn, hvars, gvars, data, bcast, now, xvars, yvars, zvars, unload_ok, wire>>

----------------------------------------------------------------------------
(* async_unload_entry and async_disconnect.  async_disconnect only gives   *)
(* up control where it awaits something unfinished; DiscA..DiscD run the   *)
(* body from one of its four blocks up to the next such await.             *)

DiscState ==
  [listen_task |-> listen_task, reconnect_task |-> reconnect_task, ws |-> ws,
   session |-> session, ltask |-> ltask, rtask |-> rtask, sock |-> sock,
   manual |-> manual, disc |-> disc]

\* a ws_connect in flight on the session that is being closed cannot succeed
Doom(pc) == IF pc = "connecting" THEN "doomed" ELSE pc

\* lines 113-115: close the session
DiscD(s) ==
  IF s.session = "open"
    THEN [s EXCEPT !.disc = "await_session",
                   !.session = "closing",
                   !.manual = Doom(@),
                   !.rtask = [i \in Conns |-> Doom(@[i])]]
    ELSE [s EXCEPT !.disc = "done"]

\* lines 109-111: close the socket (ws.close() marks it closed at once and
\* then awaits the close handshake)
DiscC(s) ==
  IF s.ws # NoConn /\ s.sock[s.ws] = "open"
    THEN [s EXCEPT !.sock[s.ws] = "closed", !.disc = "await_close"]
    ELSE DiscD(s)

RunningR == {"created", "sleeping", "connecting", "doomed", "sending"}

\* lines 101-107: cancel the reconnect task and wait for it
DiscB(s) ==
  IF s.reconnect_task # NoConn
    THEN IF s.rtask[s.reconnect_task] \in RunningR
           THEN [s EXCEPT !.rtask[s.reconnect_task] = "cancelled",
                          !.disc = "await_reconnect"]
           ELSE DiscC([s EXCEPT !.reconnect_task = NoConn])
    ELSE DiscC(s)

\* lines 93-99: cancel the listen task and wait for it
DiscA(s) ==
  IF s.listen_task # NoConn
    THEN IF s.ltask[s.listen_task] = "running"
           THEN [s EXCEPT !.ltask[s.listen_task] = "cancelled",
                          !.disc = "await_listen"]
           ELSE DiscB([s EXCEPT !.listen_task = NoConn])
    ELSE DiscB(s)

DiscApply(r) ==
  /\ listen_task' = r.listen_task
  /\ reconnect_task' = r.reconnect_task
  /\ ws' = r.ws
  /\ session' = r.session
  /\ ltask' = r.ltask
  /\ rtask' = r.rtask
  /\ sock' = r.sock
  /\ manual' = r.manual
  /\ disc' = r.disc

\* async_unload_entry with unload_ok: the coordinator is popped from
\* hass.data and async_disconnect starts by setting the shutdown flag
Unload ==
  /\ registered
  /\ disc = "idle"
  /\ unload_ok = <<>>
  /\ unload_ok' = <<TRUE>>
  /\ registered' = FALSE
  /\ is_closing' = TRUE
  /\ ndisc' = ndisc + 1
  /\ DiscApply(DiscA(DiscState))
  /\ UNCHANGED <<reconnect_delay, sent, nconn, setup, gvars, data, bcast, now,
                 response_data, wait, cmd, ncmd, rx, qry, yvars, zvars, wire>>

\* async_unload_entry where async_unload_platforms returns False, with the
\* pop and the disconnect run all the same
UnloadFailed_Disconnects ==
  /\ registered
  /\ disc = "idle"
  /\ unload_ok = <<>>
  /\ unload_ok' = <<FALSE>>
  /\ registered' = FALSE
  /\ is_closing' = TRUE
  /\ ndisc' = ndisc + 1
  /\ DiscApply(DiscA(DiscState))
  /\ UNCHANGED <<reconnect_delay, sent, nconn, setup, gvars, data, bcast, now,
                 response_data, wait, cmd, ncmd, rx, qry, yvars, zvars, wire>>

\* async_unload_entry where async_unload_platforms returns False: the
\* function returns it and touches nothing; the entry is left in the
\* state of a failed unload and is not unloaded again
UnloadFailed ==
  /\ registered
  /\ disc = "idle"
  /\ unload_ok = <<>>
  /\ unload_ok' = <<FALSE>>
  /\ UNCHANGED <<cvars, tvars, hvars, gvars, data, bcast, now, xvars, yvars, zvars, wire>>

\* async_disconnect called on a coordinator that is not registered: one
\* that was never connected, one whose first connect failed, one that was
\* unloaded; any number of times, one call after the other
async_disconnect ==
  /\ ~registered
  /\ setup \in {"init", "failed", "ready"}
  /\ disc \in {"idle", "done"}
  /\ ndisc < MaxDisc
  /\ ndisc' = ndisc + 1
  /\ is_closing' = TRUE
  /\ DiscApply(DiscA(DiscState))
  /\ UNCHANGED <<reconnect_delay, sent, nconn, setup, registered, gvars, data,
                 bcast, now, response_data, wait, cmd, ncmd, rx, qry, yvars, zvars, unload_ok, wire>>

\* the cancelled listen task has finished
DiscListenJoined ==
  /\ disc = "await_listen"
  /\ DiscApply(DiscB([DiscState EXCEPT !.listen_task = NoConn]))
  /\ UNCHANGED <<is_closing, reconnect_delay, sent, nconn, setup, registered,
                 gvars, data, bcast, now, xvars, yvars, zvars, unload_ok, wire>>

\* the cancelled reconnect task has finished
DiscReconnectJoined ==
  /\ disc = "await_reconnect"
  /\ DiscApply(DiscC([DiscState EXCEPT !.reconnect_task = NoConn]))
  /\ UNCHANGED <<is_closing, reconnect_delay, sent, nconn, setup, registered,
                 gvars, data, bcast, now, xvars, yvars, zvars, unload_ok, wire>>

\* ws.close() has returned
DiscSocketClosed ==
  /\ disc = "await_close"
  /\ DiscApply(DiscD([DiscState EXCEPT !.ws = NoConn]))
  /\ UNCHANGED <<is_closing, reconnect_delay, sent, nconn, setup, registered,
                 gvars, data, bcast, now, xvars, yvars, zvars, unload_ok, wire>>

\* session.close() has returned
DiscSessionClosed ==
  /\ disc = "await_session"
  /\ disc' = "done"
  /\ session' = "none"
  /\ UNCHANGED <<is_closing, reconnect_delay, ws, listen_task, reconnect_task,
                 tvars, setup, manual, registered, gvars, data, bcast, now, xvars, yvars, zvars, unload_ok, wire>>

----------------------------------------------------------------------------
(* The command API: a media player command or a service calls send_event,  *)
(* directly or through send_action / send_action_with_params.  The caller  *)
(* got the coordinator when the entry was set up and may still hold it     *)
(* while the entry is unloaded.                                            *)

Command(written) ==
  /\ setup = "ready"
  /\ ncmd < MaxCmd
  /\ ncmd' = ncmd + 1
  /\ cmd' = Append(cmd, send_event_outcome(ws, sock, written))
  /\ sent' = send_event(ws, sock, sent, written)
  /\ UNCHANGED <<cvars, sock, ltask, rtask, nconn, hvars, gvars, data, bcast, now,
                 response_data, wait, ndisc, rx, qry, yvars, zvars, unload_ok, wire>>

----------------------------------------------------------------------------
(* The command API with the text it writes *)

\* the name of the event that carries an action
ActionEvent == <<"a", "c", "t", "i", "o", "n">>

\* the body of send_event(event_name, payload), called as `call` with
\* arguments `args`: nothing is written without an open socket, else the
\* message is formatted and handed to send_str
SendEventAs(call, args, event_name, payload) ==
  /\ \A i \in Conns : sent[i] < MaxWritten
  /\ IF ws = NoConn \/ sock[ws] # "open"
       THEN UNCHANGED <<sent, out>>
       ELSE /\ sent' = [sent EXCEPT ![ws] = @ + 1]
            /\ out' = [call |-> call, args |-> args,
                       frame |-> Encode(event_name, payload)]
  /\ UNCHANGED <<cvars, sock, ltask, rtask, nconn, hvars, gvars, data, bcast, now,
                 xvars, yvars, inb, last, unload_ok, wire>>

\* send_event(event_name, payload)
SendEvent(event_name, payload) ==
  /\ setup = "ready"
  /\ SendEventAs("send_event", <<event_name, payload>>, event_name, payload)

\* send_action with the action wrapped in an object
send_action_Wrapped(action) ==
  /\ setup = "ready"
  /\ SendEventAs("send_action", <<action>>, ActionEvent, JObj(<< <<ActionEvent, JStr(action)>> >>))

\* send_action(action)
send_action(action) ==
  /\ setup = "ready"
  /\ SendEventAs("send_action", <<action>>, ActionEvent, JStr(action))

InKeys(d, k) == \E j \in 1..Len(d) : d[j][1] = k

RECURSIVE DictUpdate(_, _)

\* dict.update: a key that is there keeps its place and gets the new value,
\* a new key is added at the end
DictUpdate(d, u) ==
  IF u = <<>> THEN d
  ELSE LET k == Head(u)[1]
           x == Head(u)[2]
           d1 == IF InKeys(d, k)
                   THEN [j \in 1..Len(d) |-> IF d[j][1] = k THEN <<k, x>> ELSE d[j]]
                   ELSE Append(d, <<k, x>>)
       IN DictUpdate(d1, Tail(u))

\* send_action_with_params(action, params)
send_action_with_params(action, params) ==
  /\ setup = "ready"
  /\ LET payload == DictUpdate(<< <<ActionEvent, JStr(action)>> >>, params)
     IN SendEventAs("send_action_with_params", <<action, params>>, ActionEvent,
                    JObj(payload))

\* the daemon sends the last frame back as a TEXT message and the listen
\* loop hands it to _handle_message: it is decoded, and dispatched as an
\* event that matches no branch
ListenEcho(i) ==
  /\ ltask[i] = "running"
  /\ sock[i] = "open"
  /\ out.call # "none"
  /\ inb' = [from |-> out, result |-> Decode(out.frame)]
  /\ bcast' = IF inb'.result.ok THEN 1 - bcast ELSE bcast
  /\ UNCHANGED <<cvars, tvars, hvars, gvars, data, now, xvars, yvars, out, last, unload_ok, wire>>

----------------------------------------------------------------------------
(* Event frames as the daemon sends them *)

Song1 == [title |-> "T1", trackToken |-> "tok1"]

StartPayload == [title |-> "T1", trackToken |-> "tok1", station |-> "A", stationId |-> "1"]

\* a well-formed event frame
EventFrame(e, p) == <<Ch("2"), LB, Atom(e), CM, Atom(p), RB>>

\* the JSON values of reply payloads: an object is a record; a string and
\* an array carry their type, so that values of different types compare
Str(x) == [str |-> x]

List(q) == [list |-> q]

ModesList ==
  List(<<[id |-> 0, name |-> "My Station"], [id |-> 1, name |-> "Crowd Faves"]>>)

ReplyMessageList ==
  << EventFrame("song.explanation", [explanation |-> Str("Test explanation text")]),
     EventFrame("song_explanation", [explanation |-> Str("Test explanation text")]),
     EventFrame("query.upcoming.result", List(<<[title |-> "Song 1"], [title |-> "Song 2"]>>)),
     EventFrame("stationInfo", [artistSeeds |-> List(<<"AS123">>), feedback |-> List(<<>>)]),
     EventFrame("stationModes", [modes |-> ModesList]),
     EventFrame("searchResults", [categories |-> List(<<"Artists", "Songs">>)]),
     EventFrame("genres", [categories |-> List(<<"Rock", "Pop">>)]),
     EventFrame("genres", [categories |-> List(<<"Jazz">>)]),
     EventFrame("start", StartPayload),
     EventFrame("song.explanation", [explanation |-> Str("Another text")]) >>

\* the daemon sends frame number m of the reply frames on a socket; the
\* transport queues it behind the frames sent before
DaemonSend(i, m) ==
  /\ sock[i] = "open"
  /\ Len(wire[i]) < MaxWire
  /\ wire' = [wire EXCEPT ![i] = Append(@, m)]
  /\ UNCHANGED <<cvars, tvars, hvars, gvars, data, bcast, now, xvars, yvars, zvars,
                 unload_ok>>

\* frames the listen loop of a socket has taken from it so far
Taken(i) == Cardinality({n \in 1..Len(rx) : rx[n][1] = i})

\* the frame a receive returns, were it the newest the socket holds
NextFrame_Newest(i) == wire[i][Len(wire[i])]

\* the frame the next iteration of `async for msg in self._ws` returns:
\* the oldest one not yet taken
NextFrame(i) == wire[i][Taken(i) + 1]

\* one iteration of the listen loop on a socket that holds a frame: the
\* receive returns it and _handle_message runs to its end, with no
\* suspension point between the two nor inside the handler
ListenTake(i) ==
  /\ Taken(i) < Len(wire[i])
  /\ ListenMessage(i, ReplyMessageList, NextFrame(i))

\* the key a frame of the list above is stored under, None for a frame
\* that is no reply
KeyOf(m) ==
  IF ReplyMessageList[m][3].v \in DOMAIN ResponseKey
    THEN ResponseKey[ReplyMessageList[m][3].v]
    ELSE None

RECURSIVE LastStashIn(_, _)

\* the last of the first n received frames that stored a value under key,
\* 0 when there is none
LastStashIn(n, key) ==
  IF n = 0 THEN 0
  ELSE IF KeyOf(rx[n][2]) = key THEN n ELSE LastStashIn(n - 1, key)

\* the received frame that stored the value the table holds for key
LastStash(key) == LastStashIn(Len(rx), key)

\* the value a call of caller w finds under key is recorded with the
\* frame that stored it
Logged(w, op, key) ==
  taken' = IF Has(response_data, key) /\ LastStash(key) # 0
             THEN Append(taken, [w |-> w, op |-> op, n |-> wait'[w].n,
                                 src |-> LastStash(key), req |-> req[w]])
             ELSE taken

----------------------------------------------------------------------------
(* The response waiter.  wait_for_response polls the table: it looks for   *)
(* the key when it is called and again after every poll interval, until    *)
(* the key is there or the timeout has elapsed; a value found is removed   *)
(* and returned, a timeout returns None.  get_response_data looks once.    *)

\* one look at the table by a wait, without the removal of the value found
Poll_KeepsValue(c, rd) ==
  IF Has(rd, c.key)
    THEN [wait |-> [c EXCEPT !.pc = "returned", !.result = rd[c.key]],
          response_data |-> rd]
    ELSE IF c.left = 0
           THEN [wait |-> [c EXCEPT !.pc = "returned", !.result = None],
                 response_data |-> rd]
           ELSE [wait |-> [c EXCEPT !.left = @ - 1], response_data |-> rd]

\* one look at the table by a wait that has `left` poll intervals left
\* before its timeout, without the timeout: it goes on polling
Poll_NoTimeout(c, rd) ==
  IF Has(rd, c.key)
    THEN [wait |-> [c EXCEPT !.pc = "returned", !.result = rd[c.key]],
          response_data |-> Pop(rd, {c.key})]
    ELSE [wait |-> [c EXCEPT !.left = IF @ = 0 THEN 0 ELSE @ - 1],
          response_data |-> rd]

\* one look at the table by a wait that has `left` poll intervals left
\* before its timeout
Poll(c, rd) ==
  IF Has(rd, c.key)
    THEN [wait |-> [c EXCEPT !.pc = "returned", !.result = rd[c.key]],
          response_data |-> Pop(rd, {c.key})]
    ELSE IF c.left = 0
           THEN [wait |-> [c EXCEPT !.pc = "returned", !.result = None],
                 response_data |-> rd]
           ELSE [wait |-> [c EXCEPT !.left = @ - 1], response_data |-> rd]

\* wait_for_response(key, timeout) is called, with a timeout of `polls`
\* poll intervals, and looks at the table for the first time
WaitBegin(w, key, polls) ==
  /\ setup = "ready"
  /\ wait[w].pc \in {"idle", "returned"}
  /\ wait[w].n < MaxCalls
  /\ LET r == Poll([pc |-> "polling", op |-> "wait", key |-> key, left |-> polls,
                    result |-> None, n |-> wait[w].n + 1], response_data)
     IN /\ wait' = [wait EXCEPT ![w] = r.wait]
        /\ response_data' = r.response_data
  /\ Logged(w, "wait", key)
  /\ UNCHANGED <<cvars, tvars, hvars, gvars, data, bcast, now, cmd, ncmd, ndisc, rx, qry, req, zvars, unload_ok, wire>>

\* the poll interval of a wait is over: it looks at the table again
WaitPoll(w) ==
  /\ wait[w].pc = "polling"
  /\ LET r == Poll(wait[w], response_data)
     IN /\ wait' = [wait EXCEPT ![w] = r.wait]
        /\ response_data' = r.response_data
  /\ Logged(w, wait[w].op, wait[w].key)
  /\ UNCHANGED <<cvars, tvars, hvars, gvars, data, bcast, now, cmd, ncmd, ndisc, rx, qry, req, zvars, unload_ok, wire>>

\* get_response_data without the removal of the value
get_response_data_KeepsValue(w, key) ==
  /\ setup = "ready"
  /\ wait[w].pc \in {"idle", "returned"}
  /\ wait[w].n < MaxCalls
  /\ wait' = [wait EXCEPT ![w] =
                 [pc |-> "returned", op |-> "get", key |-> key, left |-> 0,
                  result |-> Get(response_data, key, None), n |-> wait[w].n + 1]]
  /\ response_data' = response_data
  /\ Logged(w, "get", key)
  /\ UNCHANGED <<cvars, tvars, hvars, gvars, data, bcast, now, cmd, ncmd, ndisc, rx, qry, req, zvars, unload_ok, wire>>

\* get_response_data(key): the value is removed from the table and returned
get_response_data(w, key) ==
  /\ setup = "ready"
  /\ wait[w].pc \in {"idle", "returned"}
  /\ wait[w].n < MaxCalls
  /\ wait' = [wait EXCEPT ![w] =
                 [pc |-> "returned", op |-> "get", key |-> key, left |-> 0,
                  result |-> Get(response_data, key, None), n |-> wait[w].n + 1]]
  /\ response_data' = Pop(response_data, {key})
  /\ Logged(w, "get", key)
  /\ UNCHANGED <<cvars, tvars, hvars, gvars, data, bcast, now, cmd, ncmd, ndisc, rx, qry, req, zvars, unload_ok, wire>>

----------------------------------------------------------------------------
(* A service that asks the daemon and waits for the reply (async_get_genres, *)
(* async_get_upcoming, ...): it sends the request with send_event and then   *)
(* calls wait_for_response on the key of the reply.                          *)

\* the request is handed to send_event, which never raises
ServiceSend(w, key, written) ==
  /\ setup = "ready"
  /\ wait[w].pc \in {"idle", "returned"}
  /\ wait[w].n < MaxCalls
  /\ wait' = [wait EXCEPT ![w] =
                 [pc |-> "requesting", op |-> "request", key |-> key, left |-> 0,
                  result |-> None, n |-> wait[w].n + 1]]
  /\ sent' = send_event(ws, sock, sent, written)
  /\ req' = [req EXCEPT ![w] = Len(rx)]
  /\ UNCHANGED <<cvars, sock, ltask, rtask, nconn, hvars, gvars, data, bcast, now,
                 response_data, cmd, ncmd, ndisc, rx, qry, taken, zvars, unload_ok, wire>>

\* send_event has returned: wait_for_response is called on the key and
\* looks at the table for the first time
ServiceWait(w, polls) ==
  /\ wait[w].pc = "requesting"
  /\ LET r == Poll([wait[w] EXCEPT !.pc = "polling", !.left = polls], response_data)
     IN /\ wait' = [wait EXCEPT ![w] = r.wait]
        /\ response_data' = r.response_data
  /\ Logged(w, "request", wait[w].key)
  /\ UNCHANGED <<cvars, tvars, hvars, gvars, data, bcast, now, cmd, ncmd, ndisc, rx, qry, req, zvars, unload_ok, wire>>

----------------------------------------------------------------------------
\* the wall clock advances
Tick ==
  /\ now < MaxNow
  /\ now' = now + 1
  /\ UNCHANGED <<cvars, tvars, hvars, gvars, data, bcast, xvars, yvars, zvars, unload_ok, wire>>

----------------------------------------------------------------------------
(* Inbound events *)

\* the events of the connection life cycle specification
LifeEvents == {<<"start", StartPayload>>}

\* the query frame of a connect is written
LifeWrites == {TRUE}

\* process payloads: a full report, a report without elapsed, a report of
\* an idle player, a report of a playing player without a song
ProcessPayloads ==
  { [playing |-> TRUE, paused |-> FALSE, volume |-> -5, maxGain |-> 10,
     station |-> "A", stationId |-> "1", elapsed |-> 45, song |-> Song1],
    [playing |-> TRUE, song |-> Song1],
    [playing |-> FALSE, paused |-> FALSE, volume |-> -5, maxGain |-> 10,
     station |-> "A", stationId |-> "1"],
    [playing |-> TRUE, paused |-> TRUE, elapsed |-> 45] }

\* the events of the dispatcher specification
DispatchEvents ==
  {<<"process", p>> : p \in ProcessPayloads}
    \cup {<<"start", StartPayload>>, <<"stop", None>>, <<"stopped", None>>,
          <<"progress", [elapsed |-> 67, duration |-> 240]>>,
          <<"volume", -10>>, <<"playState", [paused |-> TRUE]>>,
          <<"stations", <<[id |-> "1", name |-> "A"]>> >>,
          <<"someFutureEvent", None>>}

----------------------------------------------------------------------------
(* The connection life cycle: setup, the reconnect service, the listen and *)
(* reconnect tasks, unload                                                  *)

Next ==
  \/ SetupStart
  \/ \E w \in LifeWrites : SetupConnected(w, MaxConn)
  \/ SetupConnectFailed
  \/ SetupReturn
  \/ ManualStart
  \/ \E w \in LifeWrites : ManualConnected(w, MaxConn)
  \/ ManualConnectFailed
  \/ ManualReturn
  \/ \E i \in Conns, ev \in LifeEvents : ListenFrame(i, ev)
  \/ \E i \in Conns, c \in ExitCauses : ListenExit(i, c)
  \/ \E i \in Conns : ReconnectLoop(i)
  \/ \E i \in Conns : ReconnectWake(i)
  \/ \E i \in Conns, w \in LifeWrites : ReconnectConnected(i, w, MaxConn)
  \/ \E i \in Conns : ReconnectFailed(i, MaxFails)
  \/ \E i \in Conns : ReconnectReturn(i)
  \/ Unload
  \/ DiscListenJoined
  \/ DiscReconnectJoined
  \/ DiscSocketClosed
  \/ DiscSessionClosed

Spec == Init /\ [][Next]_vars

----------------------------------------------------------------------------
(* The same life cycle without inbound frames, followed through enough     *)
(* failed attempts for the reconnect delay to reach its ceiling            *)

NextBackoff ==
  \/ SetupStart
  \/ \E w \in LifeWrites : SetupConnected(w, MaxBackoffConn)
  \/ SetupConnectFailed
  \/ SetupReturn
  \/ ManualStart
  \/ \E w \in LifeWrites : ManualConnected(w, MaxBackoffConn)
  \/ ManualConnectFailed
  \/ ManualReturn
  \/ \E i \in Conns, c \in ExitCauses : ListenExit(i, c)
  \/ \E i \in Conns : ReconnectLoop(i)
  \/ \E i \in Conns : ReconnectWake(i)
  \/ \E i \in Conns, w \in LifeWrites : ReconnectConnected(i, w, MaxBackoffConn)
  \/ \E i \in Conns : ReconnectFailed(i, MaxBackoffFails)
  \/ \E i \in Conns : ReconnectReturn(i)
  \/ Unload
  \/ DiscListenJoined
  \/ DiscReconnectJoined
  \/ DiscSocketClosed
  \/ DiscSessionClosed

SpecBackoff == Init /\ [][NextBackoff]_vars

----------------------------------------------------------------------------
(* The reconnect loop under fair scheduling: a created or sleeping task is *)
(* run by the event loop, and the daemon accepts a connection attempt of   *)
(* the loop once it is offered attempts again and again                    *)

NextLive ==
  \/ SetupStart
  \/ \E w \in LifeWrites : SetupConnected(w, MaxLiveConn)
  \/ SetupConnectFailed
  \/ SetupReturn
  \/ ManualStart
  \/ \E w \in LifeWrites : ManualConnected(w, MaxLiveConn)
  \/ ManualConnectFailed
  \/ ManualReturn
  \/ \E i \in Conns, c \in ExitCauses : ListenExit(i, c)
  \/ \E i \in Conns : ReconnectLoop(i)
  \/ \E i \in Conns : ReconnectWake(i)
  \/ \E i \in Conns, w \in LifeWrites : ReconnectConnected(i, w, MaxLiveConn)
  \/ \E i \in Conns : ReconnectFailed(i, MaxLiveFails)
  \/ \E i \in Conns : ReconnectReturn(i)
  \/ Unload
  \/ DiscListenJoined
  \/ DiscReconnectJoined
  \/ DiscSocketClosed
  \/ DiscSessionClosed

ReconnectFairness ==
  \A i \in Conns :
    /\ WF_vars(ReconnectLoop(i))
    /\ WF_vars(ReconnectWake(i))
    /\ SF_vars(\E w \in LifeWrites : ReconnectConnected(i, w, MaxLiveConn))

SpecLive == Init /\ [][NextLive]_vars /\ ReconnectFairness

----------------------------------------------------------------------------
(* The dispatcher: one coordinator that is set up, receives every kind of  *)
(* event while the clock advances, loses its connection and reconnects     *)

NextDispatch ==
  \/ SetupStart
  \/ \E w \in LifeWrites : SetupConnected(w, MaxBackoffConn)
  \/ SetupReturn
  \/ \E i \in Conns, ev \in DispatchEvents : ListenFrame(i, ev)
  \/ \E i \in Conns, c \in ExitCauses : ListenExit(i, c)
  \/ \E i \in Conns : ReconnectLoop(i)
  \/ \E i \in Conns : ReconnectWake(i)
  \/ \E i \in Conns, w \in LifeWrites : ReconnectConnected(i, w, MaxBackoffConn)
  \/ \E i \in Conns : ReconnectReturn(i)
  \/ Tick

SpecDispatch == Init /\ [][NextDispatch]_vars

----------------------------------------------------------------------------
(* Raw inbound frames: one coordinator that is set up and receives frames  *)
(* of every shape until it loses its connection                            *)

ReplyValues == {"v1", "v2"}

\* frames that are not events, frames whose JSON text is malformed, frames
\* whose JSON value is no event array, and event frames
MessageList ==
  << <<Ch("0"), Atom([sid |-> "abc"])>>,
     <<>>,
     <<Ch("4"), LB, Atom("start"), CM, Atom(StartPayload), RB>>,
     <<Ch("2")>>,
     <<Ch("2"), LB, Atom("invalid")>>,
     <<Ch("2"), LB, Atom("start"), CM, RB>>,
     <<Ch("2"), LB, Atom("genres"), Atom("v1"), RB>>,
     <<Ch("2"), Atom(3)>>,
     <<Ch("2"), Atom([event |-> "start"])>>,
     <<Ch("2"), LB, RB>>,
     <<Ch("2"), LB, Atom("start"), RB>>,
     <<Ch("2"), LB, Atom("start"), CM, Atom(StartPayload), RB>>,
     <<Ch("2"), LB, Atom("stop"), CM, Atom(None), RB>>,
     <<Ch("2"), LB, Atom("genres"), CM, Atom("v1"), RB>>,
     <<Ch("2"), LB, Atom("query.upcoming.result"), CM, Atom("v2"), RB>> >>

Messages == 1..Len(MessageList)

\* the frame does not start with the event marker
NotEvent(message) == ~startswith(message, "2")

\* the frame starts with the marker and its body is malformed JSON
Malformed(message) ==
  startswith(message, "2") /\ ~json_loads(Tail(message)).ok

\* the frame starts with the marker and its body is JSON, but not an array
\* of at least two elements
NotEventArray(message) ==
  /\ startswith(message, "2")
  /\ json_loads(Tail(message)).ok
  /\ \/ ~json_loads(Tail(message)).list
     \/ Len(json_loads(Tail(message)).v) < 2

NextFrames ==
  \/ SetupStart
  \/ \E w \in LifeWrites : SetupConnected(w, MaxFrameConn)
  \/ SetupReturn
  \/ \E i \in Conns, m \in Messages : ListenMessage(i, MessageList, m)
  \/ \E i \in Conns, c \in ExitCauses : ListenExit(i, c)
  \/ Tick

SpecFrames == Init /\ [][NextFrames]_vars

----------------------------------------------------------------------------
(* The command API beside the connection life cycle; a write to the        *)
(* socket, the one of the initial query included, succeeds or fails        *)

NextCommand ==
  \/ SetupStart
  \/ \E w \in BOOLEAN : SetupConnected(w, MaxCmdConn)
  \/ SetupConnectFailed
  \/ SetupReturn
  \/ \E w \in BOOLEAN : Command(w)
  \/ \E i \in Conns, c \in ExitCauses : ListenExit(i, c)
  \/ \E i \in Conns : ReconnectLoop(i)
  \/ \E i \in Conns : ReconnectWake(i)
  \/ \E i \in Conns, w \in BOOLEAN : ReconnectConnected(i, w, MaxCmdConn)
  \/ \E i \in Conns : ReconnectFailed(i, MaxFails)
  \/ \E i \in Conns : ReconnectReturn(i)
  \/ Unload
  \/ DiscListenJoined
  \/ DiscReconnectJoined
  \/ DiscSocketClosed
  \/ DiscSessionClosed

SpecCommand == Init /\ [][NextCommand]_vars

----------------------------------------------------------------------------
(* Shutdown: the unload of the entry, and async_disconnect called again    *)
(* or on a coordinator that never connected, beside the connection life    *)
(* cycle and the reconnect service                                          *)

NextShutdown ==
  \/ SetupStart
  \/ \E w \in LifeWrites : SetupConnected(w, MaxShutConn)
  \/ SetupConnectFailed
  \/ SetupReturn
  \/ ManualStart
  \/ \E w \in LifeWrites : ManualConnected(w, MaxShutConn)
  \/ ManualConnectFailed
  \/ ManualReturn
  \/ \E i \in Conns, c \in ExitCauses : ListenExit(i, c)
  \/ \E i \in Conns : ReconnectLoop(i)
  \/ \E i \in Conns : ReconnectWake(i)
  \/ \E i \in Conns, w \in LifeWrites : ReconnectConnected(i, w, MaxShutConn)
  \/ \E i \in Conns : ReconnectFailed(i, MaxFails)
  \/ \E i \in Conns : ReconnectReturn(i)
  \/ Unload
  \/ async_disconnect
  \/ DiscListenJoined
  \/ DiscReconnectJoined
  \/ DiscSocketClosed
  \/ DiscSessionClosed

SpecShutdown == Init /\ [][NextShutdown]_vars

----------------------------------------------------------------------------
(* The unload of the entry with both outcomes of the unload of its         *)
(* platforms, beside the connection life cycle                             *)

NextUnload ==
  \/ SetupStart
  \/ \E w \in LifeWrites : SetupConnected(w, MaxShutConn)
  \/ SetupConnectFailed
  \/ SetupReturn
  \/ \E i \in Conns, c \in ExitCauses : ListenExit(i, c)
  \/ \E i \in Conns : ReconnectLoop(i)
  \/ \E i \in Conns : ReconnectWake(i)
  \/ \E i \in Conns, w \in LifeWrites : ReconnectConnected(i, w, MaxShutConn)
  \/ \E i \in Conns : ReconnectFailed(i, MaxFails)
  \/ \E i \in Conns : ReconnectReturn(i)
  \/ Unload
  \/ UnloadFailed
  \/ DiscListenJoined
  \/ DiscReconnectJoined
  \/ DiscSocketClosed
  \/ DiscSessionClosed

SpecUnload == Init /\ [][NextUnload]_vars

----------------------------------------------------------------------------
(* The response waiter beside the listen loop that dispatches the replies; *)
(* a wait that polls is scheduled again when its poll interval is over     *)

ReplyEvents ==
  {<<"genres", v>> : v \in ReplyValues} \cup {<<"query.upcoming.result", "v1">>}

WaitKeys == {"genres", "upcoming"}

NextWait ==
  \/ SetupStart
  \/ \E w \in LifeWrites : SetupConnected(w, MaxFrameConn)
  \/ SetupReturn
  \/ \E i \in Conns, ev \in ReplyEvents : ListenFrame(i, ev)
  \/ \E w \in Waiters, k \in WaitKeys, p \in 0..MaxPolls : WaitBegin(w, k, p)
  \/ \E w \in Waiters : WaitPoll(w)
  \/ \E w \in Waiters, k \in WaitKeys : get_response_data(w, k)

WaitFairness == \A w \in Waiters : WF_vars(WaitPoll(w))

SpecWait == Init /\ [][NextWait]_vars /\ WaitFairness

----------------------------------------------------------------------------
(* Reply events: one coordinator that is set up and receives the reply to   *)
(* each kind of request, and the events that change the snapshot            *)

ReplyMessages == 1..Len(ReplyMessageList)

NextReply ==
  \/ SetupStart
  \/ \E w \in LifeWrites : SetupConnected(w, MaxFrameConn)
  \/ SetupReturn
  \/ \E i \in Conns, m \in ReplyMessages : ListenMessage(i, ReplyMessageList, m)
  \/ \E i \in Conns, c \in ExitCauses : ListenExit(i, c)
  \/ Tick

SpecReply == Init /\ [][NextReply]_vars

----------------------------------------------------------------------------
(* Requests and replies: services that ask and wait, and calls of          *)
(* get_response_data, beside the listen loop that receives the replies     *)

\* the replies received: two of genres, with different values
RequestMessages == {7, 8}

\* the key the calls ask for, and their timeouts in poll intervals: none,
\* or one interval
RequestKeys == {"genres"}

RequestPolls == {0, 1}

NextRequest ==
  \/ SetupStart
  \/ \E w \in LifeWrites : SetupConnected(w, MaxFrameConn)
  \/ SetupReturn
  \/ \E i \in Conns, m \in RequestMessages : ListenMessage(i, ReplyMessageList, m)
  \/ \E w \in Waiters, k \in RequestKeys, wr \in LifeWrites : ServiceSend(w, k, wr)
  \/ \E w \in Waiters, p \in RequestPolls : ServiceWait(w, p)
  \/ \E w \in Waiters : WaitPoll(w)
  \/ \E w \in Waiters, k \in RequestKeys : get_response_data(w, k)

SpecRequest == Init /\ [][NextRequest]_vars

----------------------------------------------------------------------------
(* The wire codec: one coordinator that is set up and sends events, whose   *)
(* frames the daemon sends back                                             *)

\* event and action names: plain ones, one with a quote, one with a
\* backslash, the empty one
Names ==
  { <<"q", "u", "e", "r", "y">>, <<"a", ".", "b">>, <<"a", QUOTE, "b">>,
    <<"a", BACKSLASH, "n">>, <<>> }

\* payloads: null, scalars, strings (with a quote, a backslash and n, a
\* line break), arrays and objects, nested
Payloads ==
  << Lit("null"), Lit("true"), Lit("-10"), Lit("50"),
    JStr(<<>>), JStr(<<"a", ".", "b">>), JStr(<<"a", QUOTE>>),
    JStr(<<BACKSLASH, "n">>), JStr(<<NEWLINE, " ", "[">>),
    JList(<<>>), JObj(<<>>),
    JList(<<Lit("5"), JStr(<<"x">>)>>),
    JObj(<< <<<<"v">>, Lit("50")>> >>),
    JObj(<< <<<<"k", QUOTE>>, JList(<<Lit("null"), JObj(<< <<<<"q">>, JStr(<<"]">>)>> >>)>>)>>,
            <<<<"i", "d">>, JStr(<<"1">>)>> >>) >>

\* parameters of an action: none, one, two, and ones that name the
\* action themselves
ParamSets ==
  << <<>>,
    << <<<<"v">>, Lit("50")>> >>,
    << <<<<"i", "d">>, JStr(<<"1">>)>>, <<<<"v">>, Lit("5")>> >>,
    << <<ActionEvent, JStr(<<"x">>)>> >>,
    << <<<<"v">>, Lit("5")>>, <<ActionEvent, JStr(<<"x">>)>> >> >>

NextCodec ==
  \/ SetupStart
  \/ \E w \in LifeWrites : SetupConnected(w, MaxFrameConn)
  \/ SetupReturn
  \/ \E e \in Names, p \in 1..Len(Payloads) : SendEvent(e, Payloads[p])
  \/ \E a \in Names : send_action(a)
  \/ \E a \in Names, ps \in 1..Len(ParamSets) : send_action_with_params(a, ParamSets[ps])
  \/ \E i \in Conns : ListenEcho(i)

SpecCodec == Init /\ [][NextCodec]_vars

----------------------------------------------------------------------------
(* The handlers of the snapshot events: one coordinator that is set up and  *)
(* receives events of every kind, with the volume over a range of wire      *)
(* values, while the clock advances and until the connection is lost        *)

WireVolumes == {-10, -5, 0, 50}

EventInputs ==
  DispatchEvents
    \cup {<<"volume", v>> : v \in WireVolumes}
    \cup {<<"process", [playing |-> TRUE, volume |-> v, song |-> Song1, elapsed |-> 45]>> :
            v \in WireVolumes}
    \cup {<<"process", [paused |-> TRUE]>>, <<"progress", [elapsed |-> 12]>>,
          <<"process", [playing |-> FALSE, maxGain |-> 5, volume |-> 50,
                        song |-> Song1, elapsed |-> 9]>>}

NextEvents ==
  \/ SetupStart
  \/ \E w \in LifeWrites : SetupConnected(w, MaxFrameConn)
  \/ SetupReturn
  \/ \E i \in Conns, ev \in EventInputs : ListenEvent(i, ev)
  \/ \E i \in Conns, c \in ExitCauses : ListenExit(i, c)
  \/ Tick

SpecEvents == Init /\ [][NextEvents]_vars

----------------------------------------------------------------------------
(* The order of dispatch: the daemon sends frames on the sockets and the   *)
(* listen loops take them, beside the setup and the reconnect service,     *)
(* which opens a second socket while the first one is read                 *)

\* the frames sent: two replies with different values and a start event
OrderMessages == {7, 8, 9}

NextOrder ==
  \/ SetupStart
  \/ \E w \in LifeWrites : SetupConnected(w, MaxFrameConn + 1)
  \/ SetupReturn
  \/ ManualStart
  \/ \E w \in LifeWrites : ManualConnected(w, MaxFrameConn + 1)
  \/ ManualConnectFailed
  \/ ManualReturn
  \/ \E i \in Conns, m \in OrderMessages : DaemonSend(i, m)
  \/ \E i \in Conns : ListenTake(i)
  \/ \E i \in Conns, c \in ExitCauses : ListenExit(i, c)

SpecOrder == Init /\ [][NextOrder]_vars

----------------------------------------------------------------------------
(* Payloads of every shape: one coordinator that is set up and receives    *)
(* event frames whose payload has the wrong JSON type for its handler,     *)
(* frames with event names the dispatcher does not know, and frames it     *)
(* handles                                                                 *)

Null == [null |-> TRUE]

\* an event frame with the JSON type of its payload written out
TypedFrame(e, ty, p) == <<Ch("2"), LB, Atom(e), CM, AtomOf(ty, p), RB>>

ShapeMessageList ==
  << TypedFrame("volume", "string", Str("loud")),
     TypedFrame("volume", "null", Null),
     TypedFrame("volume", "object", [level |-> 5]),
     TypedFrame("process", "string", Str("playing")),
     TypedFrame("process", "array", List(<<>>)),
     TypedFrame("start", "null", Null),
     TypedFrame("progress", "number", 67),
     TypedFrame("playState", "string", Str("paused")),
     TypedFrame("start", "object", StartPayload),
     TypedFrame("volume", "number", 50),
     TypedFrame("progress", "object", [elapsed |-> 67]),
     TypedFrame("playState", "object", [paused |-> TRUE]),
     TypedFrame("serverNotice", "object", [text |-> Str("maintenance")]),
     TypedFrame("song.love", "null", Null),
     TypedFrame("stop", "null", Null),
     TypedFrame("stations", "array", List(<<>>)) >>

ShapeMessages == 1..Len(ShapeMessageList)

NextShapes ==
  \/ SetupStart
  \/ \E w \in LifeWrites : SetupConnected(w, MaxFrameConn)
  \/ SetupReturn
  \/ \E i \in Conns, m \in ShapeMessages : ListenMessage(i, ShapeMessageList, m)
  \/ \E i \in Conns, c \in ExitCauses : ListenExit(i, c)
  \/ Tick

SpecShapes == Init /\ [][NextShapes]_vars

----------------------------------------------------------------------------
(* Properties *)

OptionalKeys == {"song", "elapsed", "position_updated_at"}

\* the snapshot shows "stopped": the fields _clear_playback_state is to reset
Idle(d) ==
  /\ d["playing"] = FALSE
  /\ d["paused"] = FALSE
  /\ d["station"] = None
  /\ d["stationId"] = None
  /\ OptionalKeys \cap DOMAIN d = {}

\* C1: whenever a listen loop exits while disconnect() has not been called,
\* whatever the cause, the snapshot is reset to idle (playing and paused
\* false, station and stationId null, song, elapsed and the position
\* timestamp removed), the update is broadcast and a reconnect loop is
\* started and stored as the reconnect task.
C1_LossClearsAndReconnects ==
  [][\A i \in Conns :
       (ltask[i] = "running" /\ ltask'[i] = "done" /\ ~is_closing)
         => /\ Idle(data')
            /\ bcast' # bcast
            /\ rtask[i] = "none" /\ rtask'[i] = "created"
            /\ reconnect_task' = i]_vars

\* a playing snapshot was reset by a loss and the reconnect task is pending
C1_Witness ==
  \E i \in Conns :
    /\ ltask[i] = "done" /\ rtask[i] = "created"
    /\ reconnect_task = i /\ ~is_closing
    /\ Idle(data)

\* C2: shutdown is absorbing.  Once disconnect() has set the shutdown flag,
\* the flag is never cleared, no reconnect loop is started, no reconnect
\* loop makes a connect attempt, and a listen loop that ends neither
\* changes the snapshot, nor broadcasts, nor schedules a reconnect.
C2_ShutdownAbsorbing ==
  [][is_closing =>
       /\ is_closing'
       /\ \A i \in Conns : rtask[i] = "none" => rtask'[i] = "none"
       /\ \A i \in Conns : ~(rtask[i] = "sleeping" /\ rtask'[i] = "connecting")
       /\ \A i \in Conns :
            (ltask[i] = "running" /\ ltask'[i] # "running")
              => (data' = data /\ bcast' = bcast /\ reconnect_task' = reconnect_task)]_vars

RECURSIVE Pow2(_)

Pow2(k) == IF k = 0 THEN 1 ELSE 2 * Pow2(k - 1)

\* the backoff delay after k consecutive failed attempts: 5, 10, 20, ..., 300
Backoff(k) == Min(WS_RECONNECT_DELAY * Pow2(k), WS_MAX_RECONNECT_DELAY)

\* C3: within an outage every connect attempt of a reconnect loop comes
\* after a sleep of the current reconnect delay, and after k consecutive
\* failed attempts since the last successful connect that sleep is
\* min(5 * 2^k, 300) seconds.
C3_BackoffSequence ==
  [][\A i \in Conns :
       (outage /\ rtask[i] = "sleeping" /\ rtask'[i] = "connecting")
         => (slept[i] = reconnect_delay /\ slept[i] = Backoff(fails))]_vars

\* C4: the reconnect delay is at least the base (5 s) and at most the
\* ceiling (300 s) in every reachable state.
C4_DelayInRange ==
  /\ reconnect_delay >= WS_RECONNECT_DELAY
  /\ reconnect_delay <= WS_MAX_RECONNECT_DELAY

\* the reconnect loop has failed at the ceiling and sleeps the ceiling again
C4_Witness ==
  /\ reconnect_delay = WS_MAX_RECONNECT_DELAY
  /\ fails >= 7
  /\ \E i \in Conns : rtask[i] = "sleeping" /\ slept[i] = WS_MAX_RECONNECT_DELAY

\* C5: every successful connect leaves the reconnect delay at the base
\* value, and the first sleep of the reconnect loop of the next outage is
\* the base value, 5 s.
C5_ResetOnSuccess ==
  [][/\ (nconn' = nconn + 1) => reconnect_delay' = WS_RECONNECT_DELAY
     /\ \A i \in Conns :
          (rtask[i] = "created" /\ rtask'[i] = "sleeping")
            => slept'[i] = WS_RECONNECT_DELAY]_vars

\* the coordinator is connected: the current socket is open and its listen
\* loop is running
Connected == ws # NoConn /\ sock[ws] = "open" /\ ltask[ws] = "running"

\* C6: after a connection loss the coordinator is eventually connected
\* again with a running listen loop, unless it is shut down; a failed
\* attempt of the reconnect loop is followed by the next sleep of the same
\* loop, and the loop ends only after a successful connect or on shutdown.
C6_ReconnectsEventually ==
  /\ [](( outage /\ ~is_closing /\ nconn < MaxLiveConn)
          => <>(Connected \/ is_closing))
  /\ [][\A i \in Conns :
          /\ (rtask[i] = "connecting" /\ rtask'[i] # "connecting" /\ nconn' = nconn)
               => (rtask'[i] = "sleeping" \/ is_closing')
          /\ (rtask[i] # "done" /\ rtask'[i] = "done")
               => (rtask[i] = "sending" \/ is_closing)]_vars

\* a reconnect loop that failed twice has connected: its socket is the
\* current one and the listen loop runs on it
C6_Witness ==
  /\ Connected /\ ~is_closing /\ ws >= 2
  /\ \E i \in Conns : rtask[i] = "sending" /\ slept[i] >= 20

\* C7: when the first connect, made by the setup, fails, the error reaches
\* the setup (which fails as not ready): no socket is stored, no listen
\* loop and no reconnect loop is started, and the coordinator is not
\* registered.
C7_FirstConnectFailure ==
  setup = "failed"
    => /\ ws = NoConn /\ nconn = 0
       /\ listen_task = NoConn /\ reconnect_task = NoConn
       /\ \A i \in Conns : ltask[i] = "none" /\ rtask[i] = "none"
       /\ ~registered

\* the first connect has failed
C7_Witness == setup = "failed" /\ session = "open"

\* C8: song, elapsed and the position timestamp are all present or all
\* absent in every reachable snapshot.
C8_OptionalKeysTogether ==
  \/ OptionalKeys \subseteq DOMAIN data
  \/ OptionalKeys \cap DOMAIN data = {}

\* C8 as amended: song and elapsed are removed together (a step that removes
\* one of them leaves both absent), the position timestamp is present
\* whenever elapsed is, and it is removed only together with song and
\* elapsed.  The three are not always present together: a stop event
\* leaves the timestamp behind, a process event can supply a song without
\* elapsed, a progress event elapsed without a song.
C8_RemovedTogether ==
  /\ [](Has(data, "elapsed") => Has(data, "position_updated_at"))
  /\ [][((Has(data, "song") /\ ~Has(data', "song"))
           \/ (Has(data, "elapsed") /\ ~Has(data', "elapsed")))
          => (~Has(data', "song") /\ ~Has(data', "elapsed"))]_vars
  /\ [][(Has(data, "position_updated_at") /\ ~Has(data', "position_updated_at"))
          => OptionalKeys \cap DOMAIN data' = {}]_vars

\* a stop event has removed song and elapsed and left the timestamp
C8_Witness ==
  /\ Has(data, "position_updated_at")
  /\ ~Has(data, "song") /\ ~Has(data, "elapsed")
  /\ data["playing"] = FALSE /\ data["station"] = "A"

\* C9: song and elapsed are present only in a snapshot whose playing field
\* is true.
C9_SongOnlyWhilePlaying ==
  (Has(data, "song") \/ Has(data, "elapsed")) => data["playing"] = TRUE

\* C10: from a connection loss (not caused by shutdown) until the next
\* successful connect the snapshot never has playing = true, and the
\* broadcast made by the loss carries playing = false.
C10_IdleDuringOutage ==
  /\ [](outage => data["playing"] = FALSE)
  /\ [][(~outage /\ outage') => (bcast' # bcast /\ data'["playing"] = FALSE)]_vars

\* the last frame received, and the socket it came on
LastFrame == MessageList[rx[Len(rx)][2]]

LastSocket == rx[Len(rx)][1]

\* C11: an event frame whose body is malformed JSON raises nothing out of
\* message handling: the snapshot and the pending-response table are
\* unchanged, nothing is broadcast, and the listen loop that received it
\* keeps running (and so dispatches the frames that follow).
C11_MalformedDropped ==
  [][(rx' # rx /\ Malformed(MessageList[rx'[Len(rx')][2]]))
       => /\ data' = data
          /\ response_data' = response_data
          /\ bcast' = bcast
          /\ ltask' = ltask /\ ltask[rx'[Len(rx')][1]] = "running"
          /\ rtask' = rtask /\ reconnect_task' = reconnect_task]_vars

\* a malformed frame was dropped and the next frame on the same socket, a
\* start event, was dispatched
C11_Witness ==
  /\ Len(rx) = 2
  /\ Malformed(MessageList[rx[1][2]])
  /\ rx[2] = <<rx[1][1], 12>>
  /\ data["playing"] = TRUE /\ Has(data, "song")
  /\ ltask[rx[1][1]] = "running"

\* C12: a frame that does not start with the marker "2", or whose JSON
\* value is not an array of at least two elements, leaves the snapshot and
\* the pending-response table unchanged.
C12_RejectedUnchanged ==
  [][(rx' # rx /\ (\/ NotEvent(MessageList[rx'[Len(rx')][2]])
                   \/ NotEventArray(MessageList[rx'[Len(rx')][2]])))
       => /\ data' = data
          /\ response_data' = response_data
          /\ ltask' = ltask]_vars

\* a start event made the snapshot playing, then a rejected frame was
\* received: the snapshot still shows the start event
C12_Witness ==
  /\ Len(rx) >= 2
  /\ NotEvent(LastFrame) \/ NotEventArray(LastFrame)
  /\ rx[1][2] = 12
  /\ data["playing"] = TRUE
  /\ ltask[LastSocket] = "running"

\* C13: send_event never raises to its caller.  With the socket absent or
\* closed it writes nothing; when the write fails the error is swallowed;
\* in every case the connection state, the snapshot and the background
\* tasks are left as they were.
C13_SendNeverRaises ==
  [][ncmd' # ncmd
       => /\ cmd'[ncmd'] \in {"not_connected", "sent", "error_logged"}
          /\ ~is_connected => (cmd'[ncmd'] = "not_connected" /\ sent' = sent)
          /\ cmd'[ncmd'] # "sent" => sent' = sent
          /\ UNCHANGED <<cvars, sock, ltask, rtask, nconn, data, bcast,
                         response_data>>]_vars

\* the failed write of a command was swallowed on an open socket, and the
\* next command was dropped during an outage (the socket stored but closed)
C13_Witness ==
  /\ cmd = <<"error_logged", "not_connected">>
  /\ ws # NoConn /\ outage
  /\ \E i \in Conns : rtask[i] = "sleeping"

\* C14: every successful connect, the first one and each one made by the
\* reconnect loop, starts exactly one listen loop on the new socket and
\* then sends exactly one query frame on that socket.
C14_ListenAndQuery ==
  [][nconn' = nconn + 1
       => /\ ws' = nconn' /\ listen_task' = nconn'
          /\ ltask[nconn'] = "none" /\ ltask'[nconn'] = "running"
          /\ \A i \in Conns \ {nconn'} : ltask'[i] = ltask[i]
          /\ sent[nconn'] = 0 /\ sent'[nconn'] = 1]_vars

\* C14 as amended: every successful connect starts exactly one listen loop
\* on the new socket and then makes exactly one attempt to send a query
\* frame on that socket; one frame is written, or none when the write
\* fails, and then the error is logged and the connect still succeeds.
C14_ListenAndQueryAttempt ==
  [][nconn' = nconn + 1
       => /\ ws' = nconn' /\ listen_task' = nconn'
          /\ ltask[nconn'] = "none" /\ ltask'[nconn'] = "running"
          /\ \A i \in Conns \ {nconn'} : ltask'[i] = ltask[i]
          /\ qry[nconn'] = "none" /\ qry'[nconn'] \in {"sent", "error_logged"}
          /\ sent[nconn'] = 0
          /\ sent'[nconn'] = IF qry'[nconn'] = "sent" THEN 1 ELSE 0
          /\ \A i \in Conns \ {nconn'} : sent'[i] = sent[i] /\ qry'[i] = qry[i]]_vars

\* the reconnect loop has connected and the query was written on its new
\* socket, after a first connect whose query failed to be written
C14_Witness ==
  /\ nconn = 2 /\ ws = 2 /\ ltask[2] = "running"
  /\ qry[1] = "error_logged" /\ sent[1] = 0
  /\ qry[2] = "sent" /\ sent[2] = 1
  /\ rtask[1] = "sending"

\* the coordinator is shut: the flag is set, no task is stored, there is
\* no open socket and no session
Shut ==
  /\ is_closing
  /\ listen_task = NoConn /\ reconnect_task = NoConn
  /\ ~is_connected
  /\ session = "none"

\* C15: disconnect() is idempotent and safe in every state.  A call on a
\* coordinator that never connected completes at once; every call leaves
\* the coordinator shut when it returns; and a call on a coordinator that
\* an earlier call has shut completes at once, closes nothing and changes
\* no coordinator state.
C15_DisconnectIdempotent ==
  /\ [][(ndisc' = ndisc + 1 /\ nconn = 0 /\ session = "none")
          => (disc' = "done" /\ Shut')]_vars
  /\ [][(disc' = "done" /\ (disc # "done" \/ ndisc' # ndisc)) => Shut']_vars
  /\ [][(ndisc' = ndisc + 1 /\ ndisc >= 1 /\ Shut)
          => /\ disc' = "done"
             /\ UNCHANGED <<cvars, sock, ltask, rtask, manual, data, bcast>>]_vars

\* C16: within disconnect() the shutdown flag is set before any task is
\* cancelled, and the socket and the session are closed only after the
\* listen task and the reconnect task have been cancelled and have
\* finished: when disconnect() closes the socket or the session, no
\* listen loop is running and no connect attempt of a reconnect loop is in
\* progress.
C16_CloseAfterTasks ==
  /\ [](\A i \in Conns :
          (ltask[i] = "cancelled" \/ rtask[i] = "cancelled") => is_closing)
  /\ [][(disc' # disc /\ disc' \in {"await_close", "await_session"})
          => /\ is_closing'
             /\ listen_task' = NoConn /\ reconnect_task' = NoConn
             /\ \A i \in Conns :
                  /\ ltask[i] # "running"
                  /\ rtask[i] \notin {"connecting", "doomed"}]_vars

\* C17: after disconnect() has returned no listen loop and no reconnect
\* loop of the coordinator is running.
C17_NoTaskAfterDisconnect ==
  disc = "done"
    => \A i \in Conns : ltask[i] # "running" /\ rtask[i] \notin RunningR

\* caller w is inside wait_for_response
Polling(w) == wait[w].pc = "polling"

\* the step is the return of a call of caller w
Returns(w) == wait'[w].pc = "returned" /\ wait'[w].n # 0 /\ wait'[w] # wait[w]

\* C18: wait_for_response(key, timeout) returns the value when the table
\* gets an entry for key after the wait began and before the timeout
\* elapses, and the table no longer contains key afterwards: an entry for
\* the key of a wait in progress stays in the table until that wait looks
\* at the table, and the wait then returns it and removes it.
C18_WaitReturnsValue ==
  [][\A w \in Waiters :
       (Polling(w) /\ Has(response_data, wait[w].key))
         => \/ /\ Polling(w)' /\ Has(response_data', wait[w].key)
            \/ /\ Returns(w) /\ wait'[w].result = response_data[wait[w].key]
               /\ ~Has(response_data', wait[w].key)]_vars

\* C18 as amended: an entry for the key of a wait in progress is returned
\* by that wait, which removes it, unless another call of the response
\* waiter on the same key takes it first; an entry leaves the table only
\* by being returned to a call.
C18_WaitReturnsValueUnlessTaken ==
  [][\A w \in Waiters :
       (Polling(w) /\ Has(response_data, wait[w].key))
         => \/ /\ Polling(w)' /\ Has(response_data', wait[w].key)
            \/ /\ \E v \in Waiters :
                    /\ Returns(v) /\ wait'[v].key = wait[w].key
                    /\ wait'[v].result = response_data[wait[w].key]
               /\ ~Has(response_data', wait[w].key)
               /\ Returns(w) \/ Polling(w)']_vars

\* a wait found nothing when it was called, polled, and then returned the
\* reply that arrived in the meantime and removed it
C18_Witness ==
  \E w \in Waiters :
    /\ wait[w].pc = "returned" /\ wait[w].op = "wait"
    /\ wait[w].result = "v2" /\ wait[w].key = "genres"
    /\ wait[w].left < MaxPolls /\ wait[w].left > 0
    /\ ~Has(response_data, "genres")

\* C19: wait_for_response terminates for every key; when no entry for the
\* key appears before the timeout has elapsed it returns None and leaves
\* the table unchanged.
C19_WaitTerminates ==
  /\ \A w \in Waiters : [](Polling(w) => <>(wait[w].pc = "returned"))
  /\ [][\A w \in Waiters :
          (Returns(w) /\ wait'[w].op = "wait" /\ ~Has(response_data, wait'[w].key))
            => /\ wait'[w].result = None
               /\ response_data' = response_data
               /\ wait[w].left = 0 \/ ~Polling(w)]_vars

\* a wait has timed out after all its polls while the reply to another key
\* was in the table, and it has left that reply there
C19_Witness ==
  \E w \in Waiters :
    /\ wait[w].pc = "returned" /\ wait[w].op = "wait"
    /\ wait[w].key = "upcoming" /\ wait[w].result = None /\ wait[w].left = 0
    /\ Has(response_data, "genres")

\* C20: get_response_data(key) returns the stored value for key and
\* removes it, so that a second call with no reply in between returns
\* None; for a key that is absent it returns None and changes nothing.
C20_GetAndClear ==
  [][\A w \in Waiters :
       (wait'[w].op = "get" /\ wait'[w].n # wait[w].n)
         => /\ wait'[w].pc = "returned"
            /\ wait'[w].result = Get(response_data, wait'[w].key, None)
            /\ ~Has(response_data', wait'[w].key)
            /\ \A k \in DOMAIN response_data \ {wait'[w].key} :
                 Has(response_data', k) /\ response_data'[k] = response_data[k]
            /\ ~Has(response_data, wait'[w].key) => response_data' = response_data]_vars

\* a caller has read a reply with get_response_data and then, with no
\* reply in between, has read None for the same key
C20_Witness ==
  \E w \in Waiters :
    /\ wait[w].op = "get" /\ wait[w].n = 2 /\ wait[w].result = None
    /\ wait[w].key = "genres"
    /\ Has(response_data, "upcoming")

\* the event name and the payload of a well-formed event frame
NameOf(message) == message[3].v

PayloadOf(message) == message[5].v

\* the reply events as the specification names them, with their keys
StatedKey ==
  [e \in {"song_explanation", "query.upcoming.result", "stationInfo",
          "stationModes", "searchResults", "genres"} |->
     CASE e = "song_explanation" -> "song_explanation"
       [] e = "query.upcoming.result" -> "upcoming"
       [] e = "stationInfo" -> "station_info"
       [] e = "stationModes" -> "station_modes"
       [] e = "searchResults" -> "search_results"
       [] e = "genres" -> "genres"]

\* the table after key k has got value v: the other entries as they were
Stashed(rd, rd2, k, v) ==
  /\ Has(rd2, k) /\ rd2[k] = v
  /\ DOMAIN rd2 = DOMAIN rd \cup {k}
  /\ \A j \in DOMAIN rd \ {k} : rd2[j] = rd[j]

C22_NoStaleResponse ==
  \A t \in 1..Len(taken) :
    taken[t].op = "request" => taken[t].src > taken[t].req

\* C23: each value stored in the pending-response table is consumed at
\* most once: in every interleaving of reply events with wait_for_response
\* and get_response_data calls, one stored value is returned to at most
\* one call.
C23_ConsumedAtMostOnce ==
  \A t, u \in 1..Len(taken) : taken[t].src = taken[u].src => t = u

\* two services had asked for the genres and were waiting when the reply
\* arrived: one of them has returned it, the other one has timed out with
\* nothing
C23_Witness ==
  /\ Len(taken) = 1 /\ Len(rx) = 1
  /\ \E w, v \in Waiters :
       /\ w # v
       /\ taken[1] = [w |-> w, op |-> "request", n |-> 1, src |-> 1, req |-> 0]
       /\ wait[w].pc = "returned" /\ wait[w].key = "genres"
       /\ wait[v].pc = "returned" /\ wait[v].op = "request" /\ wait[v].key = "genres"
       /\ wait[v].n = 1 /\ req[v] = 0
  /\ ~Has(response_data, "genres")

\* C24: encoding then decoding is the identity.  For every event name e
\* and every JSON payload p the frame written by send_event(e, p) starts
\* with "2" and is decoded by the inbound path to exactly (e, p).
C24_RoundTrip ==
  inb.from.call = "send_event"
    => /\ inb.from.frame[1] = "2"
       /\ inb.result = [ok |-> TRUE, name |-> JStr(inb.from.args[1]),
                        payload |-> inb.from.args[2]]

\* the object the specification gives for an action with parameters,
\* {action: a, ...params}: the action first, with the value the parameters
\* give it if they name it, then the other parameters
Spread(a, params) ==
  LET named == {j \in 1..Len(params) : params[j][1] = ActionEvent}
      first == IF named = {} THEN JStr(a) ELSE params[CHOOSE j \in named : TRUE][2]
  IN JObj(<< <<ActionEvent, first>> >> \o SelectSeq(params, LAMBDA q : q[1] # ActionEvent))

\* C28: send_action(a) writes the same frame as send_event("action", a),
\* and send_action_with_params(a, params) the same frame as
\* send_event("action", {action: a, ...params}), for every action name a
\* and every mapping params.
C28_ActionWrappers ==
  /\ out.call = "send_action" => out.frame = Encode(ActionEvent, JStr(out.args[1]))
  /\ out.call = "send_action_with_params"
       => out.frame = Encode(ActionEvent, Spread(out.args[1], out.args[2]))

\* an action was sent with two parameters, one of them naming the action
\* itself, and the frame came back as the action event
C28_Witness ==
  /\ out.call = "send_action_with_params"
  /\ out.args = << <<"a", ".", "b">>,
                   << <<<<"v">>, Lit("5")>>, <<ActionEvent, JStr(<<"x">>)>> >> >>
  /\ inb.from = out
  /\ inb.result.ok /\ inb.result.name = JStr(ActionEvent)
  /\ inb.result.payload = JObj(<< <<ActionEvent, JStr(<<"x">>)>>, <<<<"v">>, Lit("5")>> >>)

\* the step dispatches an event of the given name
Dispatches(name) == last' # last /\ last'[1] = name

\* C25: a progress event changes the snapshot only while playing is true,
\* where it sets elapsed to the elapsed of the payload and refreshes the
\* position timestamp; while playing is false it leaves elapsed and every
\* other field as they were.
C25_ProgressOnlyWhilePlaying ==
  [][Dispatches("progress")
       => IF data["playing"] = TRUE
            THEN /\ DOMAIN data' = DOMAIN data \cup {"elapsed", "position_updated_at"}
                 /\ data'["elapsed"] = last'[2]["elapsed"]
                 /\ data'["position_updated_at"] = now
                 /\ \A k \in DOMAIN data \ {"elapsed", "position_updated_at"} :
                      data'[k] = data[k]
            ELSE data' = data]_vars

\* a progress event has moved the position of a playing song after the
\* clock had advanced
C25_Witness ==
  /\ last[1] = "progress"
  /\ data["playing"] = TRUE /\ Has(data, "song")
  /\ data["elapsed"] = 67 /\ data["position_updated_at"] = 1

\* C26: after a stop event, from any prior snapshot, playing is false and
\* song and elapsed are both absent, never exactly one of them.
C26_StopClearsBoth ==
  [][Dispatches("stop")
       => /\ data'["playing"] = FALSE
          /\ ~Has(data', "song") /\ ~Has(data', "elapsed")]_vars

\* a stop event came when the snapshot had elapsed and no song (a process
\* event of a playing daemon without a song, then a progress event)
C26_Witness ==
  /\ last[1] = "stop"
  /\ data["playing"] = FALSE /\ data["paused"] = TRUE
  /\ ~Has(data, "song") /\ ~Has(data, "elapsed")
  /\ Has(data, "position_updated_at")

\* C27: for every numeric wire value v, negative values included, a volume
\* event with the bare payload v and a process event with volume v both
\* leave the snapshot with volume = v / 100, sign preserved.
C27_VolumeScaled ==
  [][/\ Dispatches("volume")
          => /\ data'["volume"][2] > 0
             /\ data'["volume"][1] * 100 = last'[2] * data'["volume"][2]
     /\ (Dispatches("process") /\ Has(last'[2], "volume"))
          => /\ data'["volume"][2] > 0
             /\ data'["volume"][1] * 100 = last'[2]["volume"] * data'["volume"][2]]_vars

\* a process event with volume -5 has left the volume at -5/100, after a
\* volume event had set another one
C27_Witness ==
  /\ last[1] = "process" /\ last[3] = 1
  /\ Has(last[2], "volume") /\ last[2]["volume"] = -5
  /\ data["volume"] = <<-5, 100>>

\* the step is a call of async_unload_entry
Unloads == Len(unload_ok') = Len(unload_ok) + 1

\* C29: unloading a config entry whose platforms unload successfully
\* removes the coordinator from the host registry and calls its
\* disconnect exactly once; when the platform unload fails the coordinator
\* stays registered and disconnect is not called.
C29_UnloadEntry ==
  [][Unloads
       => IF unload_ok'[Len(unload_ok')]
            THEN registered /\ ~registered' /\ ndisc' = ndisc + 1 /\ is_closing'
            ELSE /\ registered /\ registered'
                 /\ UNCHANGED <<ndisc, is_closing, disc, cvars, tvars>>]_vars

\* the entry was unloaded while the coordinator was reconnecting after a
\* lost connection, and the one disconnect has run to its end
C29_Witness ==
  /\ unload_ok = <<TRUE>>
  /\ ~registered /\ ndisc = 1 /\ disc = "done"
  /\ nconn >= 2 /\ session = "none"

\* the frames dispatched from a socket so far, in the order of dispatch
DispatchedOn(i) == SelectSeq(rx, LAMBDA e : e[1] = i)

\* C30: frames are dispatched strictly in the order they were received
\* from the socket, and the dispatch of one frame, its state mutation and
\* its broadcast, is complete before the dispatch of the next one begins:
\* no two frames are ever dispatched concurrently.
C30_DispatchInOrder ==
  /\ [](\A i \in Conns :
          /\ Len(DispatchedOn(i)) <= Len(wire[i])
          /\ \A n \in 1..Len(DispatchedOn(i)) : DispatchedOn(i)[n][2] = wire[i][n])
  /\ [][rx' # rx
         => /\ Len(rx') = Len(rx) + 1
            /\ LET r == _handle_message(data, response_data,
                                        ReplyMessageList[rx'[Len(rx')][2]])
               IN /\ ~r.raised
                  /\ data' = r.data
                  /\ response_data' = r.response_data
                  /\ r.updated /\ bcast' = 1 - bcast]_vars

\* the daemon sent the start event and then the second reply on one
\* socket; both were dispatched, the start event first
C30_Witness ==
  \E i \in Conns :
    /\ wire[i] = <<9, 8>>
    /\ rx = << <<i, 9>>, <<i, 8>> >>
    /\ Has(data, "song") /\ "genres" \in DOMAIN response_data

\* C31: at every moment at most one listen loop is running for a
\* coordinator, so that the snapshot and the pending-response table have
\* exactly one writer, in every interleaving of the connects of the setup,
\* of the reconnect loop and of the reconnect service, of connection
\* losses and of the disconnect.
C31_OneListenLoop ==
  Cardinality({i \in Conns : ltask[i] = "running"}) <= 1

\* C38: at every moment at most one reconnect loop is running for a
\* coordinator, in every interleaving of connection losses, reconnect
\* attempts, connects and the disconnect.
C38_OneReconnectLoop ==
  Cardinality({i \in Conns : rtask[i] \in RunningR}) <= 1

\* the frame the step has received, with the event name and the JSON
\* type of the payload it carries
ShapeFrame == ShapeMessageList[rx'[Len(rx')][2]]

ShapeName == ShapeFrame[3].v

ShapeType == TypeOf(ShapeFrame[5])

\* the handler of the received frame fails on its payload: a volume event
\* whose payload is no number; a process, start or playState event, or a
\* progress event while playing, whose payload is no mapping
WrongShape ==
  \/ ShapeName = "volume" /\ ShapeType # "number"
  \/ ShapeName \in {"process", "start", "playState"} /\ ShapeType # "object"
  \/ ShapeName = "progress" /\ data["playing"] = TRUE /\ ShapeType # "object"

\* C37: when a handler fails on a payload of the wrong shape, the snapshot
\* is left exactly as it was before the frame, no broadcast is made for
\* that frame, and the listen loop continues with the next frame.
C37_WrongShapeDropped ==
  [][(rx' # rx /\ WrongShape)
       => /\ data' = data
          /\ bcast' = bcast
          /\ ltask' = ltask /\ ltask[rx'[Len(rx')][1]] = "running"
          /\ rtask' = rtask /\ reconnect_task' = reconnect_task]_vars

\* a volume event with a text for payload was dropped and the next frame
\* on the same socket, a volume event with a number, was dispatched
C37_Witness ==
  /\ Len(rx) = 2
  /\ rx[1][2] = 1 /\ rx[2] = <<rx[1][1], 10>>
  /\ data["volume"] = <<50, 100>>
  /\ ltask[rx[1][1]] = "running"

\* the event the received frame carries
ShapeEvent == <<ShapeName, ShapeFrame[5].v>>

\* C32: for every inbound frame whose dispatch mutates the snapshot, the
\* update-broadcast hook is called exactly once, after all fields of that
\* frame have been applied: never once per field and never before the
\* mutation is complete.
C32_BroadcastOncePerFrame ==
  [][(rx' # rx /\ data' # data)
       => /\ bcast' = 1 - bcast
          /\ data' = Dispatch(data, ShapeEvent)]_vars

\* a start event, which writes seven fields, was dispatched on an idle
\* snapshot and broadcast once; the loop is still running
C32_Witness ==
  /\ Len(rx) = 1 /\ rx[1][2] = 9
  /\ ltask[rx[1][1]] = "running"
  /\ data["playing"] = TRUE /\ data["song"] = StartPayload /\ data["elapsed"] = 0
  /\ data["station"] = "A"
  /\ bcast = 1

\* the names the dispatcher has a branch for
KnownNames ==
  {"process", "start", "stop", "stopped", "progress", "volume", "playState",
   "stations"} \cup DOMAIN ResponseKey

\* C33: a well-formed event frame whose event name matches none of the
\* known names is ignored silently: it raises nothing and leaves every
\* field of the snapshot and the pending-response table unchanged.
C33_UnknownIgnored ==
  [][(rx' # rx /\ ShapeName \notin KnownNames)
       => /\ data' = data
          /\ response_data' = response_data
          /\ ltask' = ltask /\ ltask[rx'[Len(rx')][1]] = "running"
          /\ rtask' = rtask /\ reconnect_task' = reconnect_task]_vars

\* an event of an unknown name came while a song was playing and left it
\* playing
C33_Witness ==
  /\ Len(rx) = 2
  /\ rx[1][2] = 9 /\ rx[2] = <<rx[1][1], 13>>
  /\ data["playing"] = TRUE /\ data["song"] = StartPayload
  /\ data["station"] = "A"
  /\ ltask[rx[1][1]] = "running"

\* C34: from every prior snapshot, a stopped event produces the same
\* snapshot as the connection-loss clear path: playing and paused false,
\* station and stationId cleared, and song, elapsed and the position
\* timestamp all removed.
C34_StoppedAsLoss ==
  [][Dispatches("stopped")
       => /\ data' = _clear_playback_state(data)
          /\ Idle(data')
          /\ \A k \in DOMAIN data \ ({"playing", "paused", "station", "stationId"}
                                         \cup OptionalKeys) :
               k \in DOMAIN data' /\ data'[k] = data[k]]_vars

\* a stopped event has reset a snapshot whose volume and station list had
\* been set, after the clock had advanced
C34_Witness ==
  /\ last[1] = "stopped" /\ last[3] = 1
  /\ Idle(data)
  /\ data["volume"] = <<50, 100>> /\ Len(data["stations"]) = 1
  /\ now = 1

\* the key is in both snapshots with one value, or in neither
SameAt(d, e, k) == (Has(d, k) <=> Has(e, k)) /\ (Has(d, k) => d[k] = e[k])

\* C35: a process event sets playing, paused, volume, maxGain, station
\* and stationId from its payload, and sets song only when the payload
\* reports playing and carries a song, and then elapsed and the position
\* timestamp only when the payload carries elapsed; the station list is
\* not changed by it.
C35_ProcessEvent ==
  [][Dispatches("process")
       => LET payload == last'[2]
          IN /\ \A k \in {"playing", "paused", "maxGain", "station", "stationId"}
                          \cap DOMAIN payload : data'[k] = payload[k]
             /\ Has(payload, "volume")
                  => data'["volume"][1] * 100 = payload["volume"] * data'["volume"][2]
             /\ IF Has(payload, "playing") /\ payload["playing"] = TRUE
                   /\ Has(payload, "song")
                  THEN /\ data'["song"] = payload["song"]
                       /\ IF Has(payload, "elapsed")
                            THEN /\ data'["elapsed"] = payload["elapsed"]
                                 /\ data'["position_updated_at"] = now
                            ELSE /\ SameAt(data', data, "elapsed")
                                 /\ SameAt(data', data, "position_updated_at")
                  ELSE \A k \in OptionalKeys : SameAt(data', data, k)
             /\ data'["stations"] = data["stations"]]_vars

\* a process event of a player that is not playing, with a song and
\* elapsed in its payload, came on a snapshot without a song: the six
\* fields are those of the payload and no song was set
C35_Witness ==
  /\ last[1] = "process"
  /\ Has(last[2], "maxGain") /\ last[2]["maxGain"] = 5
  /\ data["playing"] = FALSE /\ data["maxGain"] = 5 /\ data["volume"] = <<50, 100>>
  /\ ~Has(data, "song") /\ ~Has(data, "elapsed")
  /\ Len(data["stations"]) = 1

\* C36: from every prior snapshot, including an idle one and one that is
\* paused on another track, a start event leaves playing true, paused
\* false, song equal to the payload, elapsed 0 with a fresh position
\* timestamp, and station and stationId taken from the payload.
C36_StartEvent ==
  [][Dispatches("start")
       => LET payload == last'[2]
          IN /\ data'["playing"] = TRUE /\ data'["paused"] = FALSE
             /\ data'["song"] = payload
             /\ data'["elapsed"] = 0 /\ data'["position_updated_at"] = now
             /\ data'["station"] = payload["station"]
             /\ data'["stationId"] = payload["stationId"]]_vars

\* a start event came after other events and after the clock had
\* advanced, and left a playing snapshot with the fresh timestamp
C36_Witness ==
  /\ last[1] = "start" /\ last[3] = 1
  /\ data["playing"] = TRUE /\ data["paused"] = FALSE
  /\ data["song"] = StartPayload /\ data["elapsed"] = 0
  /\ data["position_updated_at"] = 1
  /\ data["station"] = "A" /\ data["stationId"] = "1"
  /\ data["maxGain"] = 5

\* C40: the station list, volume and maxGain are left unchanged by a
\* connection loss, by a stopped event and by a stop event: only a
\* stations event replaces the station list, and only volume and process
\* events change volume.
C40_KeptAcrossClear ==
  [][/\ data'["stations"] # data["stations"] => Dispatches("stations")
     /\ data'["volume"] # data["volume"]
          => Dispatches("volume") \/ Dispatches("process")
     /\ data'["maxGain"] # data["maxGain"] => Dispatches("process")
     /\ (\/ Dispatches("stop") \/ Dispatches("stopped")
         \/ \E i \in Conns : ltask[i] = "running" /\ ltask'[i] = "done")
          => /\ data'["stations"] = data["stations"]
             /\ data'["volume"] = data["volume"]
             /\ data'["maxGain"] = data["maxGain"]]_vars

\* the connection was lost with a volume, a maxGain and a station list
\* that events had set: the snapshot is idle and keeps the three
C40_Witness ==
  /\ \E i \in Conns : ltask[i] = "done" /\ rtask[i] = "created"
  /\ Idle(data)
  /\ data["volume"] = <<50, 100>> /\ data["maxGain"] = 5
  /\ Len(data["stations"]) = 1

\* C39: an explicit disconnect changes no field of the snapshot and
\* makes no broadcast: the playback fields read after the shutdown are the
\* ones last written before it.  From the call of the disconnect on, the
\* shutdown flag is set; no step taken with the flag set, the call
\* itself included, changes the snapshot or broadcasts.
C39_SnapshotKeptAfterDisconnect ==
  [][is_closing' => (data' = data /\ bcast' = bcast)]_vars

====
